---- MODULE Spec2Model ----
(***************************************************************************)
(* Wildfire-aware navigation engine (backend/services, backend/main.py).   *)
(*                                                                         *)
(* Spec      : the routing side.  One request is followed from its entry   *)
(*             (a call of get_route_to_nearest_safe_place, or get_route    *)
(*             called by the /api/route endpoint) to its response.  A step *)
(*             is the code between two awaits.  /api/navigate is followed  *)
(*             from line 365: it skips the selector or calls it, and       *)
(*             builds its response from what the selector returned.        *)
(* SpecFires : fetch_fires, one step per sensor of SENSORS and a final     *)
(*             sort, then lines 320-347 of /api/navigate on its outcome.   *)
(* SpecCalc  : one call of a function without awaits (create_danger_zones, *)
(*             determine_alert_level, calculate_danger_radius on a parsed  *)
(*             CSV row, get_route on one provider answer, the coverage     *)
(*             estimates of cell_service.py, decode_polyline, the body of  *)
(*             a provider request, fetch_safe_places on the mirrors'       *)
(*             answers, the candidates of /api/navigate, /api/fires/check  *)
(*             on fetch_fires' outcome).                                   *)
(* SpecTerm  : Spec with weak fairness of its steps, for termination.      *)
(*                                                                         *)
(* Abstractions.  Locations are points of a line and _haversine /          *)
(* calculate_distance_km is the distance on that line.  An Optional value  *)
(* is a sequence of length 0 (None) or 1.  float('inf') is the absent      *)
(* best_duration.                                                          *)
(***************************************************************************)
EXTENDS Integers, Sequences, FiniteSets, TLC

VARIABLES
    \* ---- routing side -------------------------------------------------
    caller,            \* "selector" | "route": the function the request runs
    include_route,     \* /api/navigate query parameter
    avoid_fires,       \* /api/route query parameter
    ors_key,           \* ORS_API_KEY is configured
    fire_fetch,        \* /api/route: "pending" | "ok" | "failed" | "skipped"
    danger_zones,      \* the zones the caller holds
    destinations,      \* the candidate list given to the selector
    pc,                \* position in the request
    idx,               \* loop index of the current pass (1-based)
    cresp,             \* provider answers to the constrained requests
    uresp,             \* provider answers to the unconstrained requests
    best_route, best_destination, best_duration,
    requests,          \* get_route calls made so far, in order
    result,            \* what the selector returned (None or (route, dest))
    raised,            \* an exception left the selector
    nav,               \* the /api/navigate response
    http,              \* the /api/route response
    \* ---- fetch_fires --------------------------------------------------
    firms_key,         \* FIRMS_API_KEY is configured
    feeds,             \* per sensor: what the provider answers
    fpc,               \* position in fetch_fires
    sensor,            \* index into SENSORS of the next sensor
    seen,              \* dedup keys seen
    all_fires,         \* observations retained so far
    fires_out,         \* fetch_fires' return value / exception
    navfire,           \* /api/navigate after line 347: what it derived from the fires
    \* ---- single calls of the other functions ----------------------------
    call,              \* the function called and its arguments
    ret                \* what it returned

rvars == <<caller, include_route, avoid_fires, ors_key, fire_fetch, danger_zones,
           destinations, pc, idx, cresp, uresp, best_route, best_destination,
           best_duration, requests, result, raised, nav, http>>
fvars == <<firms_key, feeds, fpc, sensor, seen, all_fires, fires_out, navfire>>
cvars == <<call, ret>>
vars == <<rvars, fvars, cvars>>

\* ------------------------------------------------------------------------
\* Bounds of the model
\* ------------------------------------------------------------------------
\* largest candidate list
MaxCand == 3
\* largest number of records one sensor returns
MaxRecs == 1

\* ------------------------------------------------------------------------
\* Small helpers
\* ------------------------------------------------------------------------
None == <<>>
Some(x) == <<x>>
InSeq(x, s) == \E k \in 1..Len(s) : s[k] = x
Take(s, k) == SubSeq(s, 1, IF Len(s) < k THEN Len(s) ELSE k)
Abs(x) == IF x < 0 THEN 0 - x ELSE x
Min(S) == CHOOSE x \in S : \A y \in S : x <= y

\* ------------------------------------------------------------------------
\* routing_service.py
\* ------------------------------------------------------------------------
\* _haversine, on a line
Haversine(a, b) == Abs(a - b)

\* the zones a request can hold: none, one, two
Zone1 == [center |-> 10, radius_km |-> 2, fire_id |-> 0]
Zone2 == [center |-> 20, radius_km |-> 1, fire_id |-> 1]
ZoneLists == { <<>>, <<Zone1>>, <<Zone1, Zone2>> }

\* decoded paths the provider can return: PathFar stays at exactly twice
\* Zone1's radius from its center, PathNear comes closer than that to Zone1
\* alone, PathBoth to both zones
PathFar == <<0, 6>>
PathNear == <<0, 7>>
PathBoth == <<7, 19>>

Failure(kind) == [kind |-> kind, duration |-> 0, path |-> <<>>]
Unsent == Failure("unsent")
Ok(seconds, path) == [kind |-> "ok", duration |-> seconds, path |-> path]

\* round(seconds / 60, 1), in tenths of a minute (no duration used is a tie)
RoundMinutes(seconds) == (seconds * 10 + 30) \div 60

\* what the routing provider can answer to one request: a status 404 or 500,
\* a timeout, or a 200 whose body is not JSON ("notjson"), is a JSON object
\* without the key 'routes' ("nokey"), has an empty list of routes
\* ("noroutes"), or has a route; summary.duration is in seconds, and 718 and
\* 720 both round to 12.0 minutes
ProviderAnswers ==
    { Failure("404"), Failure("500"), Failure("timeout"), Failure("noroutes"),
      Failure("notjson"), Failure("nokey") }
    \cup { Ok(d, p) : d \in {718, 720, 1080}, p \in {PathFar, PathNear, PathBoth} }
\* the answers the selector's requests draw from
ConstrainedAnswers ==
    { Failure("404"), Failure("500"),
      Ok(720, PathFar), Ok(1080, PathFar), Ok(720, PathNear) }
UnconstrainedAnswers ==
    { Failure("404"), Failure("500"), Ok(720, PathFar), Ok(1080, PathNear) }

\* NearbyZones scanning only the first point of the path
NearbyZonesFirstPoint(zones, path, acc) ==
    SelectSeq(zones, LAMBDA zone : Haversine(path[1], zone.center) < zone.radius_km * 2)

\* get_route, lines 160-172: the zones the decoded path passes near
RECURSIVE NearbyZones(_, _, _)
NearbyZones(zones, path, acc) ==
    IF zones = <<>> THEN acc
    ELSE LET zone == Head(zones)
             hit == \E k \in 1..Len(path) :
                        Haversine(path[k], zone.center) < zone.radius_km * 2
         IN  NearbyZones(Tail(zones), path,
                         IF hit /\ ~InSeq(zone, acc) THEN Append(acc, zone) ELSE acc)

\* BuildRoute with avoids_fire_zones left at the SafeRoute default (True)
BuildRouteDefaultFlag(dest, zones, answer) ==
    LET nearby == IF zones # <<>> THEN NearbyZones(zones, answer.path, <<>>) ELSE <<>>
    IN  [ destination |-> dest.lat,
          destination_name |-> None,
          duration_minutes |-> RoundMinutes(answer.duration),
          path |-> answer.path,
          avoids_fire_zones |-> TRUE,
          danger_zones_nearby |-> nearby,
          warnings |-> [k \in 1..Len(nearby) |-> "passes_near_fire"] ]

\* get_route, lines 174-184: the SafeRoute built from a provider route
BuildRoute(dest, zones, answer) ==
    LET nearby == IF zones # <<>> THEN NearbyZones(zones, answer.path, <<>>) ELSE <<>>
    IN  [ destination |-> dest.lat,
          destination_name |-> None,
          duration_minutes |-> RoundMinutes(answer.duration),
          path |-> answer.path,
          avoids_fire_zones |-> (Len(nearby) = 0),
          danger_zones_nearby |-> nearby,
          warnings |-> [k \in 1..Len(nearby) |-> "passes_near_fire"] ]

\* get_route: "raise", "none" (no route) or a route
GetRoute(dest, zones, answer, key) ==
    IF ~key THEN [kind |-> "raise", route |-> None]
    ELSE IF answer.kind = "404" THEN [kind |-> "none", route |-> None]
    ELSE IF answer.kind \in {"500", "timeout", "notjson"}
         THEN [kind |-> "raise", route |-> None]
    ELSE IF answer.kind \in {"noroutes", "nokey"} THEN [kind |-> "none", route |-> None]
    ELSE [kind |-> "route", route |-> Some(BuildRoute(dest, zones, answer))]

\* d < best_duration, best_duration starting at float('inf')
LessThan(d, best) == best = None \/ d < best[1]

Best(route, dest, duration) ==
    [route |-> route, destination |-> dest, duration |-> duration]

\* ConstrainedUpdate without the avoids_fire_zones test of line 207
ConstrainedUpdateAnyRoute(best, out, dest) ==
    IF out.kind = "route"
       /\ LessThan(out.route[1].duration_minutes, best.duration)
    THEN Best(out.route, Some(dest), Some(out.route[1].duration_minutes))
    ELSE best

\* ConstrainedUpdate without the best_duration assignment of line 211
ConstrainedUpdateKeepDuration(best, out, dest) ==
    IF out.kind = "route" /\ out.route[1].avoids_fire_zones
       /\ LessThan(out.route[1].duration_minutes, best.duration)
    THEN Best(out.route, Some(dest), best.duration)
    ELSE best

\* selector, lines 207-211: the constrained pass keeps a route that avoids the
\* zones and is strictly faster than the best so far
ConstrainedUpdate(best, out, dest) ==
    IF out.kind = "route" /\ out.route[1].avoids_fire_zones
       /\ LessThan(out.route[1].duration_minutes, best.duration)
    THEN Best(out.route, Some(dest), Some(out.route[1].duration_minutes))
    ELSE best

\* MarkUnsafe without the assignment of line 232
MarkUnsafeWarnOnly(route) ==
    [route EXCEPT !.warnings = Append(@, "may_pass_fire_zones")]

\* selector, lines 231-232: the warning and the forced flag
MarkUnsafe(route) ==
    [route EXCEPT !.warnings = Append(@, "may_pass_fire_zones"),
                  !.avoids_fire_zones = FALSE]

\* selector, lines 227-232: the fallback pass keeps any strictly faster route
FallbackUpdate(best, out, dest) ==
    IF out.kind = "route" /\ LessThan(out.route[1].duration_minutes, best.duration)
    THEN Best(Some(MarkUnsafe(out.route[1])), Some(dest),
              Some(out.route[1].duration_minutes))
    ELSE best

\* selector, lines 213-215 and 234-235: what an exception of get_route does
\* to the pass: "continue" (the loop goes on with the next candidate), and not
\* "break" (the pass ends) nor "propagate" (the exception leaves the selector)
OnRouteErrorBreak == "break"
OnRouteErrorPropagate == "propagate"
OnRouteError == "continue"

\* NextIndex asking again for a candidate whose request failed
NextIndexRetry(i, mode, n) == IF mode = "break" THEN n + 1 ELSE i

\* selector, lines 198 and 218: the for loop goes to the next candidate after
\* each get_route call, whatever its outcome (or ends, were the error to break)
NextIndex(i, mode, n) == IF mode = "break" THEN n + 1 ELSE i + 1

\* EnterFallback without the test of line 217
EnterFallbackAlways(route) == TRUE

\* selector, line 217: the fallback pass is entered
EnterFallback(route) == route = None

\* selector, lines 237-241
SelectorReturn(route, dest) ==
    IF route # None /\ dest # None
    THEN Some([route |-> [route[1] EXCEPT !.destination_name = dest[1].name],
               destination |-> dest[1]])
    ELSE None

\* candidate k of a list: id, name and location
Candidate(k) == [id |-> k, name |-> Some(k), lat |-> 100 + k]
CandidateLists == { [k \in 1..n |-> Candidate(k)] : n \in 0..MaxCand }

\* main.py line 371: at most five safe places become candidates
Fanout == 5

\* ------------------------------------------------------------------------
\* fire_service.py
\* ------------------------------------------------------------------------
\* Coordinates are in thirds of 0.0001 degree and raw distances in thirds of
\* 0.01 km, so that rounding to 4 and to 2 decimals has something to round
\* and never meets a tie.
Round3(m) == (m + 1) \div 3

\* f"{x:.4f}": the sign is printed for every negative x, also when the digits
\* round to 0.0000
Fmt4(x) == [neg |-> x < 0, digits |-> Round3(Abs(x))]

\* calculate_distance_km, as the taxicab distance
CalculateDistanceKm(lat1, lng1, lat2, lng2) == Abs(lat2 - lat1) + Abs(lng2 - lng1)

\* SENSORS
NumSensors == 3

\* the request: the reference point and radius_km (raw distance units);
\* 3000 is 10 km, the least fire_radius_km /api/navigate accepts
RefLat == 0
RefLng == 0
SearchRadius == 3000

\* a confidence value: CSV text, or a number
ConfStr(text) == [isint |-> FALSE, text |-> text, n |-> 0]
ConfInt(n) == [isint |-> TRUE, text |-> "", n |-> n]

\* a record of parse_firms_csv
Raw(lat, lng, date, frp, confidence) ==
    [latitude |-> lat, longitude |-> lng, acq_date |-> date, frp |-> frp,
     confidence |-> confidence]

\* the records the sensors can report: RecA on the radius, RecA2 with RecA's
\* key but outside the radius, RecD as far as RecA elsewhere, RecC next to the
\* reference point, RecN with a latitude that is no number
RecA == Raw(Some(3000), Some(0), 1, None, ConfStr("nominal"))
RecA2 == Raw(Some(3001), Some(0), 1, Some(600), ConfStr("high"))
RecD == Raw(Some(0), Some(3000), 1, Some(60), ConfStr("low"))
RecC == Raw(Some(1), Some(0), 1, Some(20), ConfStr("nominal"))
RecN == Raw(None, Some(0), 1, Some(20), ConfStr("nominal"))
RawRecords == {RecA, RecA2, RecD, RecC, RecN}

RECURSIVE SeqsUpTo(_, _)
SeqsUpTo(S, n) ==
    IF n = 0 THEN {<<>>}
    ELSE LET shorter == SeqsUpTo(S, n - 1)
         IN  shorter \cup {Append(q, x) : q \in {r \in shorter : Len(r) = n - 1}, x \in S}

\* what one sensor's request gives: a failure (non-200, error text, exception)
\* or the parsed records
NoFeed == [status |-> "pending", records |-> <<>>]
FailedFeed == [status |-> "failed", records |-> <<>>]
Feeds == {FailedFeed} \cup {[status |-> "ok", records |-> r] : r \in SeqsUpTo(RawRecords, MaxRecs)}

\* calculate_danger_radius, in hundredths of a km
CalculateDangerRadius(fire) ==
    LET frp == IF fire.frp = None THEN 0 ELSE fire.frp[1]
        confidence == fire.confidence
        base_radius == IF frp > 500 THEN 500
                       ELSE IF frp > 100 THEN 300
                       ELSE IF frp > 50 THEN 200
                       ELSE IF frp > 10 THEN 150
                       ELSE 100
    IN  IF (~confidence.isint /\ confidence.text = "high")
           \/ (confidence.isint /\ confidence.n > 80)
        THEN (base_radius * 12) \div 10
        ELSE IF (~confidence.isint /\ confidence.text = "low")
                \/ (confidence.isint /\ confidence.n < 30)
        THEN (base_radius * 8) \div 10
        ELSE base_radius

\* fetch_fires, line 115: the dedup key
FireKey(fire) == <<Fmt4(fire.latitude[1]), Fmt4(fire.longitude[1]), fire.acq_date>>

\* fetch_fires, lines 127-138
FireData(fire, distance) ==
    [latitude |-> fire.latitude[1], longitude |-> fire.longitude[1],
     acq_date |-> fire.acq_date, confidence |-> fire.confidence, frp |-> fire.frp,
     distance_km |-> Round3(distance),
     danger_radius_km |-> CalculateDangerRadius(fire)]

Merged(keys, fires) == [seen |-> keys, all_fires |-> fires]

\* fetch_fires, lines 111-138: one record of a sensor
ProcessRecord(acc, fire) ==
    IF fire.latitude = None \/ fire.longitude = None THEN acc
    ELSE IF FireKey(fire) \in acc.seen THEN acc
    ELSE LET distance == CalculateDistanceKm(RefLat, RefLng,
                                              fire.latitude[1], fire.longitude[1])
         IN  Merged(acc.seen \cup {FireKey(fire)},
                    IF distance <= SearchRadius
                    THEN Append(acc.all_fires, FireData(fire, distance))
                    ELSE acc.all_fires)

RECURSIVE ProcessRecords(_, _)
ProcessRecords(acc, records) ==
    IF records = <<>> THEN acc
    ELSE ProcessRecords(ProcessRecord(acc, Head(records)), Tail(records))

\* MergeSensor with the seen set created inside the sensor loop
MergeSensorOwnSeen(acc, feed) ==
    IF feed.status = "ok"
    THEN Merged(acc.seen, ProcessRecords(Merged({}, acc.all_fires), feed.records).all_fires)
    ELSE acc

\* fetch_fires, lines 97-142: one sensor; a failed request contributes nothing
MergeSensor(acc, feed) ==
    IF feed.status = "ok" THEN ProcessRecords(acc, feed.records) ELSE acc

\* line 144: the sort key, f.distance_km or float('inf'); <<>> is infinity
SortKey(f) == IF f.distance_km = 0 THEN None ELSE Some(f.distance_km)
KeyLE(a, b) == b = None \/ (a # None /\ a[1] <= b[1])

\* list.sort is stable: f goes behind the elements whose key is not greater
RECURSIVE InsertByKey(_, _)
InsertByKey(sorted, f) ==
    IF sorted = <<>> THEN <<f>>
    ELSE IF KeyLE(SortKey(Head(sorted)), SortKey(f))
         THEN <<Head(sorted)>> \o InsertByKey(Tail(sorted), f)
         ELSE <<f>> \o sorted

\* SortByDistance without the sort of line 144: the list in merge order
SortByDistanceSkipped(fires) == fires

RECURSIVE SortByDistance(_)
SortByDistance(fires) ==
    IF fires = <<>> THEN <<>>
    ELSE InsertByKey(SortByDistance(SubSeq(fires, 1, Len(fires) - 1)),
                     fires[Len(fires)])

\* create_danger_zones, lines 151-169: one fire; distances and radii are in
\* hundredths of a km; `x and x <= 5` is false for x = 0.0
RiskLevel(distance_km) ==
    IF distance_km # 0 /\ distance_km <= 500 THEN "critical"
    ELSE IF distance_km # 0 /\ distance_km <= 1000 THEN "high"
    ELSE IF distance_km # 0 /\ distance_km <= 2500 THEN "medium"
    ELSE "low"

DangerZone(fire, i) ==
    [center_lat |-> fire.latitude, center_lng |-> fire.longitude,
     radius_km |-> ((IF fire.danger_radius_km = 0 THEN 100 ELSE fire.danger_radius_km)
                        * 15) \div 10,
     fire_id |-> i - 1,
     risk_level |-> RiskLevel(fire.distance_km)]

CreateDangerZones(fires) == [i \in 1..Len(fires) |-> DangerZone(fires[i], i)]

\* determine_alert_level with the boundaries excluded
DetermineAlertLevelExclusive(closest_km, fire_count) ==
    IF closest_km = None \/ fire_count = 0 THEN "none"
    ELSE IF closest_km[1] < 500 THEN "critical"
    ELSE IF closest_km[1] < 1000 THEN "high"
    ELSE IF closest_km[1] < 2500 THEN "medium"
    ELSE IF closest_km[1] < 5000 THEN "low"
    ELSE "none"

\* determine_alert_level; closest_km is Optional, in hundredths of a km
DetermineAlertLevel(closest_km, fire_count) ==
    IF closest_km = None \/ fire_count = 0 THEN "none"
    ELSE IF closest_km[1] <= 500 THEN "critical"
    ELSE IF closest_km[1] <= 1000 THEN "high"
    ELSE IF closest_km[1] <= 2500 THEN "medium"
    ELSE IF closest_km[1] <= 5000 THEN "low"
    ELSE "none"

\* main.py, lines 320-347: what /api/navigate derives from fetch_fires' outcome
NavFireData(outcome) ==
    LET failed == outcome.kind = "raise"
        fires == IF failed THEN <<>> ELSE outcome.fires
        closest_fire_km == IF failed \/ fires = <<>> THEN None
                           ELSE Some(fires[1].distance_km)
        warnings == IF failed THEN <<"could_not_fetch_fire_data">> ELSE <<>>
    IN  IF Len(fires) = 0
        THEN [early |-> TRUE, alert_level |-> "none", fires_detected |-> 0,
              closest_fire_km |-> None, danger_zones |-> <<>>, warnings |-> warnings]
        ELSE [early |-> FALSE,
              alert_level |-> DetermineAlertLevel(closest_fire_km, Len(fires)),
              fires_detected |-> Len(fires),
              closest_fire_km |-> closest_fire_km,
              danger_zones |-> CreateDangerZones(fires),
              warnings |-> warnings]

\* is_point_in_danger_zone with the boundary excluded
IsPointInDangerZoneStrict(point, zones) ==
    \E k \in 1..Len(zones) :
        CalculateDistanceKm(point, 0, zones[k].center, 0) < zones[k].radius_km

\* is_point_in_danger_zone, for a point and zones on a line
IsPointInDangerZone(point, zones) ==
    \E k \in 1..Len(zones) :
        CalculateDistanceKm(point, 0, zones[k].center, 0) <= zones[k].radius_km

\* /api/navigate has not come to line 347
NoNavFire == [early |-> FALSE, alert_level |-> "pending", fires_detected |-> 0,
              closest_fire_km |-> None, danger_zones |-> <<>>, warnings |-> <<>>]

\* no single function call is followed
NoCall == [fn |-> "none"]
CalcIdle == call = NoCall /\ ret = NoCall

\* ------------------------------------------------------------------------
\* The routing side: initial states
\* ------------------------------------------------------------------------
\* fetch_fires is not running
FiresIdle ==
    /\ firms_key = TRUE
    /\ feeds = <<>>
    /\ fpc = "idle"
    /\ sensor = 1
    /\ seen = {}
    /\ all_fires = <<>>
    /\ fires_out = [kind |-> "pending", fires |-> <<>>]
    /\ navfire = NoNavFire

NoBest == Best(None, None, None)
NoHttp == [status |-> 0, route |-> None]
NoNav == [route |-> None, recommended_destination |-> None, warnings |-> <<>>]

RoutingInit ==
    /\ caller \in {"selector", "route"}
    /\ include_route \in (IF caller = "selector" THEN BOOLEAN ELSE {TRUE})
    /\ avoid_fires \in (IF caller = "route" THEN BOOLEAN ELSE {TRUE})
    /\ ors_key \in BOOLEAN
    /\ fire_fetch = "pending"
       \* /api/route starts from danger_zones = []
    /\ danger_zones \in (IF caller = "selector" THEN {<<>>, <<Zone1, Zone2>>}
                         ELSE {<<>>})
       \* /api/navigate passes safe_places[:5]; /api/route has one destination
    /\ destinations \in (IF caller = "route" THEN {<<Candidate(1)>>}
                         ELSE {Take(c, Fanout) : c \in CandidateLists})
    /\ pc = "start"
    /\ idx = 1
    /\ cresp = [k \in 1..Len(destinations) |-> Unsent]
    /\ uresp = [k \in 1..Len(destinations) |-> Unsent]
    /\ best_route = None
    /\ best_destination = None
    /\ best_duration = None
    /\ requests = <<>>
    /\ result = None
    /\ raised = FALSE
    /\ nav = NoNav
    /\ http = NoHttp

Init == RoutingInit /\ FiresIdle /\ CalcIdle

\* ------------------------------------------------------------------------
\* get_route_to_nearest_safe_place
\* ------------------------------------------------------------------------
\* the selector is called (by /api/navigate, line 375, or by another caller)
SelCall ==
    /\ caller = "selector" /\ pc = "start" /\ include_route
    /\ pc' = "pass1"
    /\ UNCHANGED <<caller, include_route, avoid_fires, ors_key, fire_fetch,
                   danger_zones, destinations, idx, cresp, uresp, best_route,
                   best_destination, best_duration, requests, result, raised,
                   nav, http>>
    /\ UNCHANGED <<fvars, cvars>>

\* the provider's answer to a request: none is asked for without a key
Answers(S) == IF ors_key THEN S ELSE {Unsent}

\* one iteration of the loop of lines 198-215
SelConstrained ==
    /\ pc = "pass1" /\ idx <= Len(destinations)
    /\ \E answer \in Answers(ConstrainedAnswers) :
        LET dest == destinations[idx]
            out == GetRoute(dest, danger_zones, answer, ors_key)
            best == ConstrainedUpdate(
                        Best(best_route, best_destination, best_duration), out, dest)
            mode == IF out.kind = "raise" THEN OnRouteError ELSE "continue"
        IN  /\ cresp' = [cresp EXCEPT ![idx] = answer]
            /\ requests' = Append(requests, [dest |-> dest.id, constrained |-> TRUE])
            /\ best_route' = best.route
            /\ best_destination' = best.destination
            /\ best_duration' = best.duration
            /\ raised' = (mode = "propagate")
            /\ pc' = IF mode = "propagate" THEN "done" ELSE pc
            /\ idx' = NextIndex(idx, mode, Len(destinations))
    /\ UNCHANGED <<caller, include_route, avoid_fires, ors_key, fire_fetch,
                   danger_zones, destinations, uresp, result, nav, http>>
    /\ UNCHANGED <<fvars, cvars>>

\* lines 217 and 237-241 after the constrained pass
SelEndConstrained ==
    /\ pc = "pass1" /\ idx > Len(destinations)
    /\ IF EnterFallback(best_route)
       THEN /\ pc' = "pass2"
            /\ idx' = 1
            /\ UNCHANGED result
       ELSE /\ pc' = "done"
            /\ result' = SelectorReturn(best_route, best_destination)
            /\ UNCHANGED idx
    /\ UNCHANGED <<caller, include_route, avoid_fires, ors_key, fire_fetch,
                   danger_zones, destinations, cresp, uresp, best_route,
                   best_destination, best_duration, requests, raised, nav, http>>
    /\ UNCHANGED <<fvars, cvars>>

\* one iteration of the loop of lines 218-235
SelFallback ==
    /\ pc = "pass2" /\ idx <= Len(destinations)
    /\ \E answer \in Answers(UnconstrainedAnswers) :
        LET dest == destinations[idx]
            out == GetRoute(dest, <<>>, answer, ors_key)
            best == FallbackUpdate(
                        Best(best_route, best_destination, best_duration), out, dest)
            mode == IF out.kind = "raise" THEN OnRouteError ELSE "continue"
        IN  /\ uresp' = [uresp EXCEPT ![idx] = answer]
            /\ requests' = Append(requests, [dest |-> dest.id, constrained |-> FALSE])
            /\ best_route' = best.route
            /\ best_destination' = best.destination
            /\ best_duration' = best.duration
            /\ raised' = (mode = "propagate")
            /\ pc' = IF mode = "propagate" THEN "done" ELSE pc
            /\ idx' = NextIndex(idx, mode, Len(destinations))
    /\ UNCHANGED <<caller, include_route, avoid_fires, ors_key, fire_fetch,
                   danger_zones, destinations, cresp, result, nav, http>>
    /\ UNCHANGED <<fvars, cvars>>

\* lines 237-241 after the fallback pass
SelReturn ==
    /\ pc = "pass2" /\ idx > Len(destinations)
    /\ pc' = "done"
    /\ result' = SelectorReturn(best_route, best_destination)
    /\ UNCHANGED <<caller, include_route, avoid_fires, ors_key, fire_fetch,
                   danger_zones, destinations, idx, cresp, uresp, best_route,
                   best_destination, best_duration, requests, raised, nav, http>>
    /\ UNCHANGED <<fvars, cvars>>

\* ------------------------------------------------------------------------
\* main.py: /api/navigate, lines 365-401 (the route part)
\* ------------------------------------------------------------------------
\* Recommended taking the nearest safe place, whatever the selector chose
RecommendedFirstPlace(places, dest, route) ==
    Some([place |-> places[1], route_duration_minutes |-> route.duration_minutes])

\* line 382: the safe place with the returned destination's id
Recommended(places, dest, route) ==
    LET hits == SelectSeq(places, LAMBDA p : p.id = dest.id)
    IN  IF hits = <<>> THEN None
        ELSE Some([place |-> hits[1],
                   route_duration_minutes |-> route.duration_minutes])

\* lines 380-401: the response built from what the selector returned
NavResponse(res, failed, places) ==
    IF failed
    THEN [route |-> None, recommended_destination |-> None,
          warnings |-> <<"could_not_calculate_route">>]
    ELSE IF res = None THEN NoNav
    ELSE [route |-> Some(res[1].route),
          recommended_destination |-> Recommended(places, res[1].destination, res[1].route),
          warnings |-> <<>>]

\* /api/navigate reaches line 365 only with at least one fire, hence zone
FromNavigate == caller = "selector" /\ danger_zones # <<>>

\* line 368: without include_route or without a safe place the selector is
\* not called and the response has no route
NavSkip ==
    /\ FromNavigate /\ pc = "start"
    /\ ~(include_route /\ destinations # <<>>)
    /\ nav' = NavResponse(None, FALSE, destinations)
    /\ pc' = "responded"
    /\ UNCHANGED <<caller, include_route, avoid_fires, ors_key, fire_fetch,
                   danger_zones, destinations, idx, cresp, uresp, best_route,
                   best_destination, best_duration, requests, result, raised, http>>
    /\ UNCHANGED <<fvars, cvars>>

\* lines 380-401, when the selector's caller was /api/navigate
NavRespond ==
    /\ FromNavigate /\ pc = "done" /\ destinations # <<>>
    /\ nav' = NavResponse(result, raised, destinations)
    /\ pc' = "responded"
    /\ UNCHANGED <<caller, include_route, avoid_fires, ors_key, fire_fetch,
                   danger_zones, destinations, idx, cresp, uresp, best_route,
                   best_destination, best_duration, requests, result, raised, http>>
    /\ UNCHANGED <<fvars, cvars>>

\* ------------------------------------------------------------------------
\* main.py: /api/route (get_safe_route), lines 404-443
\* ------------------------------------------------------------------------
\* lines 414-422: the zones come from fetch_fires; its failure is swallowed
\* and leaves danger_zones = []
RouteFetchFires ==
    /\ caller = "route" /\ pc = "start"
    /\ IF avoid_fires
       THEN \E ok \in BOOLEAN, zones \in ZoneLists :
              /\ fire_fetch' = IF ok THEN "ok" ELSE "failed"
              /\ danger_zones' = IF ok THEN zones ELSE <<>>
       ELSE /\ fire_fetch' = "skipped"
            /\ UNCHANGED danger_zones
    /\ pc' = "route_call"
    /\ UNCHANGED <<caller, include_route, avoid_fires, ors_key, destinations, idx,
                   cresp, uresp, best_route, best_destination, best_duration,
                   requests, result, raised, nav, http>>
    /\ UNCHANGED <<fvars, cvars>>

\* lines 424-443: 200 with the route; a missing route raises the 404
\* HTTPException inside the try, which the except Exception turns into a 500
RouteResponse(out) ==
    IF out.kind = "route" THEN [status |-> 200, route |-> out.route]
    ELSE [status |-> 500, route |-> None]

RouteRespond ==
    /\ caller = "route" /\ pc = "route_call"
    /\ \E answer \in Answers(ProviderAnswers) :
        LET dest == destinations[1]
            zones == IF avoid_fires THEN danger_zones ELSE <<>>
        IN  /\ cresp' = [cresp EXCEPT ![1] = answer]
            /\ requests' = Append(requests, [dest |-> dest.id, constrained |-> avoid_fires])
            /\ http' = RouteResponse(GetRoute(dest, zones, answer, ors_key))
    /\ pc' = "responded"
    /\ UNCHANGED <<caller, include_route, avoid_fires, ors_key, fire_fetch,
                   danger_zones, destinations, idx, uresp, best_route,
                   best_destination, best_duration, result, raised, nav>>
    /\ UNCHANGED <<fvars, cvars>>

Next ==
    \/ SelCall
    \/ SelConstrained
    \/ SelEndConstrained
    \/ SelFallback
    \/ SelReturn
    \/ NavSkip
    \/ NavRespond
    \/ RouteFetchFires
    \/ RouteRespond

Spec == Init /\ [][Next]_vars

\* ========================================================================
\* Properties of the routing side
\* ========================================================================
NumCand == Len(destinations)
\* the selector has returned (or was skipped by /api/navigate)
SelDone == caller = "selector" /\ pc \in {"done", "responded"}
\* candidate k's constrained / unconstrained request produced a route
COk(k) == ors_key /\ cresp[k].kind = "ok"
UOk(k) == ors_key /\ uresp[k].kind = "ok"
\* the route get_route built for candidate k in either pass
CRoute(k) == BuildRoute(destinations[k], danger_zones, cresp[k])
URoute(k) == BuildRoute(destinations[k], <<>>, uresp[k])
\* the candidates whose constrained route succeeded and avoids the zones
Avoiding == {k \in 1..NumCand : COk(k) /\ CRoute(k).avoids_fire_zones}
\* the candidates whose unconstrained route succeeded
Unconstrained == {k \in 1..NumCand : UOk(k)}
FallbackRequested == \E j \in 1..Len(requests) : ~requests[j].constrained
FlagMatchesNearby(route) ==
    route.avoids_fire_zones = (route.danger_zones_nearby = <<>>)
Named(route, dest) == [route EXCEPT !.destination_name = dest.name]

\* C1 (as stated): every Route returned by get_route, and every Route the
\* selector returns from either pass, has
\* avoids_fire_zones == (danger_zones_nearby is empty).
C1_FlagMatchesNearbyEverywhere ==
    /\ http.route # None => FlagMatchesNearby(http.route[1])
    /\ \A k \in 1..NumCand : COk(k) => FlagMatchesNearby(CRoute(k))
    /\ result # None => FlagMatchesNearby(result[1].route)

\* C1 (amended): the equality holds of every Route get_route returns and of
\* the Route the selector returns from its constrained pass; a Route returned
\* from the fallback pass has avoids_fire_zones false and danger_zones_nearby
\* empty, so of every returned Route only "avoids_fire_zones implies
\* danger_zones_nearby empty" holds.
C1_FlagMatchesNearbyButFallback ==
    /\ http.route # None => FlagMatchesNearby(http.route[1])
    /\ \A k \in 1..NumCand :
         /\ COk(k) => FlagMatchesNearby(CRoute(k))
         /\ UOk(k) => FlagMatchesNearby(URoute(k))
    /\ (result # None /\ caller # "route") =>
         IF FallbackRequested
         THEN /\ ~result[1].route.avoids_fire_zones
              /\ result[1].route.danger_zones_nearby = <<>>
         ELSE FlagMatchesNearby(result[1].route)

\* a Route came back from the fallback pass, after get_route had flagged a
\* constrained route near a zone
C1_Witness ==
    /\ result # None /\ FallbackRequested
    /\ \E k \in 1..NumCand : COk(k) /\ CRoute(k).danger_zones_nearby # <<>>

\* C2: when /api/route is called with avoid_fires = true and the fire-data
\* fetch fails, the Route it returns does not report avoids_fire_zones == true
\* (no zone was checked against its path).
C2_NoSafeFlagAfterFailedFetch ==
    (caller = "route" /\ avoid_fires /\ fire_fetch = "failed" /\ http.route # None)
        => ~http.route[1].avoids_fire_zones

\* C3: when some candidate's constrained request succeeds with
\* avoids_fire_zones == true, the selector returns such a candidate's route,
\* with avoids_fire_zones == true and the minimum duration_minutes over all of
\* them; a candidate that failed, had no route or was flagged is not returned.
C3_ConstrainedMinimum ==
    (SelDone /\ Avoiding # {}) =>
        /\ result # None
        /\ result[1].destination.id \in Avoiding
        /\ result[1].route =
              Named(CRoute(result[1].destination.id), result[1].destination)
        /\ result[1].route.avoids_fire_zones
        /\ result[1].route.duration_minutes =
              Min({CRoute(k).duration_minutes : k \in Avoiding})

\* three candidates: two avoiding routes of 12.0 and 18.0 minutes and a failure
C3_Witness ==
    /\ SelDone /\ NumCand = 3 /\ result # None
    /\ result[1].route.duration_minutes = 120
    /\ \E a, b, c \in 1..3 :
         /\ {a, b} = Avoiding
         /\ CRoute(a).duration_minutes = 120 /\ CRoute(b).duration_minutes = 180
         /\ cresp[c].kind = "500"

\* C4: when the constrained pass selects nothing and some unconstrained
\* request succeeds, the selector returns the minimum-duration unconstrained
\* route, with avoids_fire_zones == false and the 'may pass through or near
\* fire zones' warning, wherever its path lies.
C4_FallbackMinimumUnsafe ==
    (SelDone /\ Avoiding = {} /\ Unconstrained # {}) =>
        /\ result # None
        /\ result[1].destination.id \in Unconstrained
        /\ result[1].route.path = URoute(result[1].destination.id).path
        /\ result[1].route.duration_minutes =
              Min({URoute(k).duration_minutes : k \in Unconstrained})
        /\ ~result[1].route.avoids_fire_zones
        /\ InSeq("may_pass_fire_zones", result[1].route.warnings)

\* the fallback returned a route whose path stays away from every zone
C4_Witness ==
    /\ SelDone /\ danger_zones # <<>> /\ Avoiding = {} /\ result # None
    /\ result[1].route.path = PathFar
    /\ NearbyZones(danger_zones, result[1].route.path, <<>>) = <<>>

\* C5: an unconstrained request is issued only after every candidate was
\* evaluated under the constraints and none gave a successful route that
\* avoids the zones; if the constrained pass selected a route, no
\* unconstrained request is issued and that selection is returned.
C5_FallbackOnlyAfterConstrained ==
    caller # "route" =>
        /\ \A j \in 1..Len(requests) : ~requests[j].constrained =>
              /\ j > NumCand
              /\ \A k \in 1..NumCand :
                    requests[k] = [dest |-> destinations[k].id, constrained |-> TRUE]
              /\ Avoiding = {}
        /\ (SelDone /\ Avoiding # {}) =>
              /\ ~FallbackRequested
              /\ result # None
              /\ result[1].route =
                    Named(CRoute(result[1].destination.id), result[1].destination)

\* an unconstrained request was issued although a constrained request had
\* succeeded (its route was flagged near a zone)
C5_Witness ==
    /\ caller # "route" /\ FallbackRequested
    /\ \E k \in 1..NumCand : COk(k)

\* C6: if every candidate is unroutable in both passes, or the list is empty,
\* the selector returns None and raises nothing, and /api/navigate answers
\* with route == null and recommended_destination == null.
C6_NoDestination ==
    (SelDone /\ (NumCand = 0 \/ (Len(requests) = 2 * NumCand
                                 /\ \A k \in 1..NumCand : ~COk(k) /\ ~UOk(k)))) =>
        /\ result = None
        /\ ~raised
        /\ pc = "responded" =>
              /\ nav.route = None
              /\ nav.recommended_destination = None
              /\ nav.warnings = <<>>

\* /api/navigate answered after three candidates failed in both passes, by an
\* exception and by 'no route'
C6_Witness ==
    /\ caller = "selector" /\ pc = "responded" /\ NumCand = 3
    /\ Len(requests) = 6
    /\ \A k \in 1..3 : ~COk(k) /\ ~UOk(k)
    /\ \E j, k \in 1..3 : cresp[j].kind = "500" /\ uresp[k].kind = "404"

\* the get_route calls of one pass, in list order
PassRequests(constrained) ==
    [k \in 1..NumCand |-> [dest |-> destinations[k].id, constrained |-> constrained]]

\* C7: an exception on one candidate's request does not abort the pass: every
\* pass that is entered issues a request for every candidate, and a candidate
\* evaluated after a failing one can still be selected.
C7_EveryCandidateRequested ==
    (SelDone /\ requests # <<>>) =>
        /\ ~raised
        /\ requests = (IF FallbackRequested
                       THEN PassRequests(TRUE) \o PassRequests(FALSE)
                       ELSE PassRequests(TRUE))
        /\ (Avoiding # {} \/ Unconstrained # {}) => result # None

\* the returned candidate was evaluated after one whose requests raised in
\* both passes
C7_Witness ==
    /\ SelDone /\ result # None /\ FallbackRequested
    /\ \E j \in 1..NumCand :
         /\ j < result[1].destination.id
         /\ cresp[j].kind = "500" /\ uresp[j].kind = "500"

\* the two loops of the selector run over the candidates in the order `order`
\* (a permutation of the list's indices), on the provider's recorded answers
RECURSIVE ConstrainedPass(_, _, _)
ConstrainedPass(order, k, best) ==
    IF k > Len(order) THEN best
    ELSE LET dest == destinations[order[k]]
             out == GetRoute(dest, danger_zones, cresp[order[k]], ors_key)
         IN  ConstrainedPass(order, k + 1, ConstrainedUpdate(best, out, dest))

RECURSIVE FallbackPass(_, _, _)
FallbackPass(order, k, best) ==
    IF k > Len(order) THEN best
    ELSE LET dest == destinations[order[k]]
             out == GetRoute(dest, <<>>, uresp[order[k]], ors_key)
         IN  FallbackPass(order, k + 1, FallbackUpdate(best, out, dest))

\* what get_route_to_nearest_safe_place returns for that order
SelectOver(order) ==
    LET first == ConstrainedPass(order, 1, NoBest)
        last == IF EnterFallback(first.route) THEN FallbackPass(order, 1, first)
                ELSE first
    IN  SelectorReturn(last.route, last.destination)

\* the orders of a list of n elements
OrdersOf(n) == {p \in [1..n -> 1..n] : \A a, b \in 1..n : p[a] = p[b] => a = b}
OrdersByLength == [n \in 0..MaxCand |-> OrdersOf(n)]
Orders == OrdersByLength[NumCand]

\* the candidates that tie for the minimum duration in the deciding pass
Fastest ==
    IF Avoiding # {}
    THEN {k \in Avoiding : CRoute(k).duration_minutes =
                             Min({CRoute(j).duration_minutes : j \in Avoiding})}
    ELSE {k \in Unconstrained : URoute(k).duration_minutes =
                             Min({URoute(j).duration_minutes : j \in Unconstrained})}

\* C8 (as stated): for fixed candidates and provider answers, the route and
\* destination the selector returns are the same for every order in which the
\* candidates are evaluated.
C8_SameResultForEveryOrder ==
    (SelDone /\ pc = "done" /\ requests # <<>>) =>
        \A p \in Orders : SelectOver(p) = result

\* C8 (amended): for every order the selector returns a result or none alike,
\* and the returned route has the same duration_minutes, avoids_fire_zones and
\* warnings; the route and destination themselves are the same for every order
\* when a single candidate has the minimum duration (on a tie the candidate
\* evaluated first is returned).
C8_SameResultUpToTies ==
    (SelDone /\ pc = "done" /\ requests # <<>>) =>
        IF Cardinality(Fastest) = 1
        THEN \A p \in Orders : SelectOver(p) = result
        ELSE \A p \in Orders :
                LET other == SelectOver(p)
                IN  /\ (other = None) = (result = None)
                    /\ other # None =>
                         /\ other[1].route.duration_minutes =
                               result[1].route.duration_minutes
                         /\ other[1].route.avoids_fire_zones =
                               result[1].route.avoids_fire_zones
                         /\ other[1].route.warnings = result[1].route.warnings

\* three candidates, the last one alone the fastest and returned
C8_Witness ==
    /\ SelDone /\ pc = "done" /\ NumCand = 3 /\ result # None
    /\ Fastest = {3}
    /\ result[1].destination.id = 3
    /\ Cardinality(Avoiding) >= 2

\* ========================================================================
\* fetch_fires as a state machine
\* ========================================================================
\* no routing request is running
RoutingIdle ==
    /\ caller = "none"
    /\ include_route = TRUE
    /\ avoid_fires = TRUE
    /\ ors_key = TRUE
    /\ fire_fetch = "pending"
    /\ danger_zones = <<>>
    /\ destinations = <<>>
    /\ pc = "idle"
    /\ idx = 1
    /\ cresp = <<>>
    /\ uresp = <<>>
    /\ best_route = None
    /\ best_destination = None
    /\ best_duration = None
    /\ requests = <<>>
    /\ result = None
    /\ raised = FALSE
    /\ nav = NoNav
    /\ http = NoHttp

NoFires == [kind |-> "pending", fires |-> <<>>]

FiresInit ==
    /\ firms_key \in BOOLEAN
    /\ feeds = [s \in 1..NumSensors |-> NoFeed]
    /\ fpc = "start"
    /\ sensor = 1
    /\ seen = {}
    /\ all_fires = <<>>
    /\ fires_out = NoFires
    /\ navfire = NoNavFire
    /\ RoutingIdle
    /\ CalcIdle

\* lines 87-96: without the key fetch_fires raises before any request
FetchStart ==
    /\ fpc = "start"
    /\ IF firms_key
       THEN fpc' = "sensors" /\ UNCHANGED fires_out
       ELSE fpc' = "done" /\ fires_out' = [kind |-> "raise", fires |-> <<>>]
    /\ UNCHANGED <<firms_key, feeds, sensor, seen, all_fires, navfire>>
    /\ UNCHANGED <<rvars, cvars>>

\* lines 97-142: the request to the next sensor of SENSORS and its records
FetchSensor ==
    /\ fpc = "sensors" /\ sensor <= NumSensors
    /\ \E feed \in Feeds :
        LET acc == MergeSensor(Merged(seen, all_fires), feed)
        IN  /\ feeds' = [feeds EXCEPT ![sensor] = feed]
            /\ seen' = acc.seen
            /\ all_fires' = acc.all_fires
    /\ sensor' = sensor + 1
    /\ UNCHANGED <<firms_key, fpc, fires_out, navfire>>
    /\ UNCHANGED <<rvars, cvars>>

\* lines 144-145
FetchReturn ==
    /\ fpc = "sensors" /\ sensor > NumSensors
    /\ all_fires' = SortByDistance(all_fires)
    /\ fires_out' = [kind |-> "ok", fires |-> SortByDistance(all_fires)]
    /\ fpc' = "done"
    /\ UNCHANGED <<firms_key, feeds, sensor, seen, navfire>>
    /\ UNCHANGED <<rvars, cvars>>

\* main.py, lines 320-347: /api/navigate takes fetch_fires' outcome
NavFires ==
    /\ fpc = "done"
    /\ navfire' = NavFireData(fires_out)
    /\ fpc' = "navigate"
    /\ UNCHANGED <<firms_key, feeds, sensor, seen, all_fires, fires_out>>
    /\ UNCHANGED <<rvars, cvars>>

FiresNext ==
    \/ FetchStart
    \/ FetchSensor
    \/ FetchReturn
    \/ NavFires

SpecFires == FiresInit /\ [][FiresNext]_vars

\* ========================================================================
\* Properties of fetch_fires
\* ========================================================================
FetchDone == fpc \in {"done", "navigate"} /\ fires_out.kind = "ok"
\* the usable records of sensor s
UsableRecords(s) ==
    IF feeds[s].status = "ok"
    THEN SelectSeq(feeds[s].records, LAMBDA r : r.latitude # None /\ r.longitude # None)
    ELSE <<>>
SensorKeys(s) == {FireKey(UsableRecords(s)[k]) : k \in 1..Len(UsableRecords(s))}
ObservationKey(f) == <<Fmt4(f.latitude), Fmt4(f.longitude), f.acq_date>>
WithKey(fires, key) == {k \in 1..Len(fires) : ObservationKey(fires[k]) = key}

\* the usable records of sensors s..NumSensors, in the order they are merged
RECURSIVE RecordsFrom(_)
RecordsFrom(s) ==
    IF s > NumSensors THEN <<>> ELSE UsableRecords(s) \o RecordsFrom(s + 1)
\* the first merged record with the key is within the radius
FirstInRadius(key) ==
    LET first == SelectSeq(RecordsFrom(1), LAMBDA r : FireKey(r) = key)[1]
    IN  CalculateDistanceKm(RefLat, RefLng, first.latitude[1], first.longitude[1])
            <= SearchRadius

\* C9 (as stated): the list fetch_fires returns never holds two observations
\* with the same key (latitude and longitude to 4 decimals, acq_date): two raw
\* records with one key from different sensors yield exactly one observation.
C9_ExactlyOnePerSharedKey ==
    FetchDone =>
        /\ \A a, b \in 1..Len(fires_out.fires) :
              ObservationKey(fires_out.fires[a]) = ObservationKey(fires_out.fires[b])
                  => a = b
        /\ \A s, t \in 1..NumSensors : \A key \in SensorKeys(s) \cap SensorKeys(t) :
              s # t => Cardinality(WithKey(fires_out.fires, key)) = 1

\* C9 (amended): the list never holds two observations with the same key; the
\* records with one key, from one sensor or several, yield exactly one
\* observation when the first of them to be merged is within the requested
\* radius, and none otherwise (also when a later one is within the radius).
C9_NoDuplicateKey ==
    /\ \A a, b \in 1..Len(all_fires) :
          ObservationKey(all_fires[a]) = ObservationKey(all_fires[b]) => a = b
    /\ FetchDone =>
          /\ \A a, b \in 1..Len(fires_out.fires) :
                ObservationKey(fires_out.fires[a]) = ObservationKey(fires_out.fires[b])
                    => a = b
          /\ \A s \in 1..NumSensors : \A key \in SensorKeys(s) :
                Cardinality(WithKey(fires_out.fires, key)) =
                    (IF FirstInRadius(key) THEN 1 ELSE 0)

\* two sensors reported different records with the same key, and the result
\* holds one observation with it
C9_Witness ==
    /\ FetchDone
    /\ \E s, t \in 1..NumSensors : \E key \in SensorKeys(s) :
         /\ s # t
         /\ key \in SensorKeys(t)
         /\ UsableRecords(s) # UsableRecords(t)
         /\ Cardinality(WithKey(fires_out.fires, key)) = 1

\* fetch_fires with the sensors merged in the order `order`
RECURSIVE MergeOver(_, _, _)
MergeOver(order, k, acc) ==
    IF k > Len(order) THEN acc
    ELSE MergeOver(order, k + 1, MergeSensor(acc, feeds[order[k]]))

FetchOver(order) == SortByDistance(MergeOver(order, 1, Merged({}, <<>>)).all_fires)

SensorOrders == OrdersOf(NumSensors)

\* C10 (as stated): for fixed per-sensor records, the deduplicated, sorted
\* list, with every field of every observation and its order, is the same
\* whatever order the sensors are merged in.
C10_SameListForEveryOrder ==
    FetchDone => \A p \in SensorOrders : FetchOver(p) = fires_out.fires

\* no key is reported by two different sensors
KeysDisjoint ==
    \A s, t \in 1..NumSensors : s # t => SensorKeys(s) \cap SensorKeys(t) = {}
\* no two observations of the list have the same distance_km
DistancesDistinct(fires) ==
    \A a, b \in 1..Len(fires) : fires[a].distance_km = fires[b].distance_km => a = b

\* C10 (amended): the list is the same for every merge order when no key is
\* reported by two different sensors and no two retained observations have
\* the same distance_km.  (For a key two sensors share, the sensor merged
\* first decides the observation's fields and whether it passes the radius
\* filter; observations at one distance stay in merge order.)
C10_SameListWithoutSharedKeysAndTies ==
    (FetchDone /\ KeysDisjoint /\ DistancesDistinct(fires_out.fires)) =>
        \A p \in SensorOrders : FetchOver(p) = fires_out.fires

\* two sensors contributed, no shared key, no tie, and the sort reordered the
\* merged list
C10_Witness ==
    /\ FetchDone /\ KeysDisjoint /\ DistancesDistinct(fires_out.fires)
    /\ Len(fires_out.fires) = 2
    /\ \E s, t \in 1..NumSensors :
         /\ s < t
         /\ Len(UsableRecords(s)) = 1 /\ Len(UsableRecords(t)) = 1
         /\ FireKey(UsableRecords(s)[1]) = ObservationKey(fires_out.fires[2])
         /\ FireKey(UsableRecords(t)[1]) = ObservationKey(fires_out.fires[1])

\* /api/navigate has taken fetch_fires' list
NavFiresDone == fpc = "navigate" /\ fires_out.kind = "ok"
\* the distance_km of the nearest observation of a non-empty list
NearestKm(fires) == Min({fires[k].distance_km : k \in 1..Len(fires)})

\* C11: fetch_fires returns its observations in non-decreasing order of
\* distance_km, also those whose distance_km is 0, so that the closest_fire_km
\* /api/navigate takes from the first element, and the alert level derived
\* from it, are those of the nearest detected fire.
C11_SortedNearestFirst ==
    NavFiresDone =>
        LET fires == fires_out.fires
        IN  /\ \A a, b \in 1..Len(fires) :
                  a < b => fires[a].distance_km <= fires[b].distance_km
            /\ fires # <<>> =>
                  /\ navfire.closest_fire_km = Some(NearestKm(fires))
                  /\ navfire.alert_level =
                        DetermineAlertLevel(Some(NearestKm(fires)), Len(fires))

\* ========================================================================
\* Single calls of the pure functions
\* ========================================================================
\* distances (hundredths of a km) around the thresholds 5, 10, 25 and 50 km
Distances == {0, 1, 499, 500, 501, 730, 1000, 1001, 2500, 2501, 5000, 5001}

\* an observation as fetch_fires builds it, at a distance
FireAt(d) ==
    [latitude |-> d, longitude |-> 0, acq_date |-> 1, confidence |-> ConfStr("nominal"),
     frp |-> None, distance_km |-> d, danger_radius_km |-> 100]

\* largest list of fires given to create_danger_zones
MaxFires == 2

CreateDangerZonesCalls ==
    {[fn |-> "create_danger_zones", fires |-> f] :
        f \in SeqsUpTo({FireAt(d) : d \in Distances}, MaxFires)}

DetermineAlertLevelCalls ==
    {[fn |-> "determine_alert_level", closest_km |-> c, fire_count |-> n] :
        c \in {None} \cup {Some(d) : d \in Distances}, n \in {0, 1, 4}}

CallCreateDangerZones ==
    /\ call.fn = "create_danger_zones" /\ ret = NoCall
    /\ ret' = [fn |-> call.fn, value |-> CreateDangerZones(call.fires)]
    /\ UNCHANGED <<call, rvars, fvars>>

CallDetermineAlertLevel ==
    /\ call.fn = "determine_alert_level" /\ ret = NoCall
    /\ ret' = [fn |-> call.fn,
               value |-> DetermineAlertLevel(call.closest_km, call.fire_count)]
    /\ UNCHANGED <<call, rvars, fvars>>

\* the risk banding by distance (hundredths of a km), boundaries inclusive
BandOf(d) ==
    IF d <= 500 THEN "critical"
    ELSE IF d <= 1000 THEN "high"
    ELSE IF d <= 2500 THEN "medium"
    ELSE "low"

\* C12: for every fire the zone built by create_danger_zones has risk_level
\* CRITICAL when distance_km <= 5 (from 0 up to and including 5), HIGH when
\* 5 < d <= 10, MEDIUM when 10 < d <= 25 and LOW otherwise; never NONE.
C12_ZoneRiskByDistance ==
    ret.fn = "create_danger_zones" =>
        /\ Len(ret.value) = Len(call.fires)
        /\ \A i \in 1..Len(call.fires) :
              /\ ret.value[i].risk_level = BandOf(call.fires[i].distance_km)
              /\ ret.value[i].risk_level # "none"

\* the order of the alert levels
Severity(level) ==
    CASE level = "none" -> 0 [] level = "low" -> 1 [] level = "medium" -> 2
      [] level = "high" -> 3 [] level = "critical" -> 4

\* C13: determine_alert_level returns NONE when fire_count == 0 or closest_km
\* is unknown; otherwise CRITICAL for closest_km <= 5, HIGH for <= 10, MEDIUM
\* for <= 25, LOW for <= 50 and NONE beyond 50, boundaries inclusive; the
\* level never increases as closest_km grows.
C13_AlertLevelBands ==
    ret.fn = "determine_alert_level" =>
        IF call.fire_count = 0 \/ call.closest_km = None
        THEN ret.value = "none"
        ELSE LET km == call.closest_km[1]
             IN  /\ ret.value = (IF km <= 5000 THEN BandOf(km) ELSE "none")
                 /\ \A farther \in Distances :
                       farther >= km =>
                          Severity(DetermineAlertLevel(Some(farther), call.fire_count))
                              <= Severity(ret.value)

\* 7.3 km with 4 fires gives HIGH
C13_Witness ==
    /\ ret.fn = "determine_alert_level"
    /\ call.closest_km = Some(730) /\ call.fire_count = 4
    /\ ret.value = "high"

\* ------------------------------------------------------------------------
\* parse_firms_csv and calculate_danger_radius
\* ------------------------------------------------------------------------
\* a CSV cell: its text, and the number the text denotes (None if it is none)
Word(text) == [text |-> text, number |-> None]
Numeral(n) == [text |-> ToString(n), number |-> Some(n)]

\* parse_firms_csv, lines 43-52: one row; float() is applied to latitude,
\* longitude and frp (None on ValueError), every other column stays text
ParseFirmsRow(row) ==
    Raw(row.latitude.number, row.longitude.number, row.acq_date,
        row.frp.number, ConfStr(row.confidence.text))

FrpCells == {Word("")} \cup {Numeral(n) : n \in {0, 10, 11, 50, 51, 100, 101, 500, 501, 600}}
ConfidenceCells ==
    {Word("high"), Word("low"), Word("nominal"), Word("h"), Word("l")}
    \cup {Numeral(n) : n \in {29, 30, 80, 81, 85}}

DangerRadiusCalls ==
    {[fn |-> "calculate_danger_radius",
      row |-> [latitude |-> Numeral(1), longitude |-> Numeral(0), acq_date |-> 1,
               frp |-> f, confidence |-> c]] :
        f \in FrpCells, c \in ConfidenceCells}

\* the danger radius of the observation normalized from a provider row
CallDangerRadius ==
    /\ call.fn = "calculate_danger_radius" /\ ret = NoCall
    /\ ret' = [fn |-> call.fn,
               value |-> CalculateDangerRadius(ParseFirmsRow(call.row))]
    /\ UNCHANGED <<call, rvars, fvars>>

\* the FRP-bucket base radius, in hundredths of a km; a missing FRP counts as 0
BaseRadiusOf(cell) ==
    LET frp == IF cell.number = None THEN 0 ELSE cell.number[1]
    IN  IF frp > 500 THEN 500 ELSE IF frp > 100 THEN 300 ELSE IF frp > 50 THEN 200
        ELSE IF frp > 10 THEN 150 ELSE 100

\* the confidence factor, in tenths
FactorOf(cell) ==
    IF cell.text = "high" \/ (cell.number # None /\ cell.number[1] > 80) THEN 12
    ELSE IF cell.text = "low" \/ (cell.number # None /\ cell.number[1] < 30) THEN 8
    ELSE 10

\* C14: for every observation normalized from a provider record, the danger
\* radius is the FRP-bucket base (FRP > 500: 5.0, > 100: 3.0, > 50: 2.0,
\* > 10: 1.5, else 1.0, missing FRP as 0) times 1.2 when confidence is "high"
\* or a number above 80, times 0.8 when it is "low" or a number below 30, and
\* times 1.0 otherwise.
C14_DangerRadiusByFrpAndConfidence ==
    ret.fn = "calculate_danger_radius" =>
        ret.value = (BaseRadiusOf(call.row.frp) * FactorOf(call.row.confidence)) \div 10

\* ------------------------------------------------------------------------
\* get_route
\* ------------------------------------------------------------------------
\* the zone lists given to get_route, one of them with a zone twice
GetRouteZoneLists == ZoneLists \cup { <<Zone2>>, <<Zone1, Zone1>> }

GetRouteCalls ==
    {[fn |-> "get_route", dest |-> Candidate(1), zones |-> z, answer |-> a, key |-> k] :
        z \in GetRouteZoneLists, a \in ProviderAnswers, k \in BOOLEAN}

CallGetRoute ==
    /\ call.fn = "get_route" /\ ret = NoCall
    /\ ret' = [fn |-> call.fn,
               value |-> GetRoute(call.dest, call.zones, call.answer, call.key)]
    /\ UNCHANGED <<call, rvars, fvars>>

\* C16: an upstream 404 yields 'no route' (None) without raising; any other
\* non-2xx status or a malformed payload raises a routing failure and is never
\* reported as 'no route'; a timeout raises a routing failure, distinct from
\* 'no route'.
C16_ProviderOutcomes ==
    (ret.fn = "get_route" /\ call.key) =>
        /\ call.answer.kind = "404" => ret.value.kind = "none"
        /\ call.answer.kind \in {"500", "notjson", "nokey"} => ret.value.kind = "raise"
        /\ call.answer.kind = "timeout" => ret.value.kind = "raise"

\* some point of the path is closer to the zone's center than twice its radius
PassesNear(path, zone) ==
    \E k \in 1..Len(path) : Haversine(path[k], zone.center) < 2 * zone.radius_km

\* C17: for a Route returned by get_route with supplied zones Z and decoded
\* path P, a zone of Z is in danger_zones_nearby if and only if some point of
\* P lies within twice its radius of its center; avoids_fire_zones is true if
\* and only if no zone was flagged; danger_zones_nearby holds only supplied
\* zones, and exactly one warning is attached per flagged zone.
C17_NearbyZonesAndFlag ==
    (ret.fn = "get_route" /\ ret.value.kind = "route") =>
        LET route == ret.value.route[1]
            nearby == route.danger_zones_nearby
        IN  /\ \A k \in 1..Len(call.zones) :
                  InSeq(call.zones[k], nearby) <=> PassesNear(route.path, call.zones[k])
            /\ \A j \in 1..Len(nearby) : InSeq(nearby[j], call.zones)
            /\ \A i, j \in 1..Len(nearby) : nearby[i] = nearby[j] => i = j
            /\ route.avoids_fire_zones = (nearby = <<>>)
            /\ Len(route.warnings) = Len(nearby)

\* a path whose second point alone is near the first of two supplied zones, a
\* zone supplied twice and flagged once
C17_Witness ==
    /\ ret.fn = "get_route" /\ ret.value.kind = "route"
    /\ call.zones = <<Zone1, Zone1>> /\ call.answer.path = PathNear
    /\ ret.value.route[1].danger_zones_nearby = <<Zone1>>
    /\ Len(ret.value.route[1].warnings) = 1

\* ------------------------------------------------------------------------
\* cell_service.py
\* ------------------------------------------------------------------------
\* estimate_coverage_simple, lines 181-203
EstimateCoverageSimple(point, zones) ==
    IF IsPointInDangerZone(point, zones)
    THEN [has_coverage |-> FALSE, quality |-> "likely_degraded",
          tower_count |-> None, closest_tower_m |-> None]
    ELSE [has_coverage |-> TRUE, quality |-> "assumed_available",
          tower_count |-> None, closest_tower_m |-> None]

\* the points of the line a location is drawn from
MaxPoint == 24

CoverageSimpleCalls ==
    {[fn |-> "estimate_coverage_simple", point |-> p, zones |-> z] :
        p \in 0..MaxPoint, z \in GetRouteZoneLists}

CallCoverageSimple ==
    /\ call.fn = "estimate_coverage_simple" /\ ret = NoCall
    /\ ret' = [fn |-> call.fn, value |-> EstimateCoverageSimple(call.point, call.zones)]
    /\ UNCHANGED <<call, rvars, fvars>>

\* C18: estimate_coverage_simple always gives an answer: has_coverage false
\* with quality "likely_degraded" if and only if the point's distance to some
\* zone's center is <= that zone's radius (boundary inclusive), has_coverage
\* true with "assumed_available" otherwise, also for an empty zone list.
C18_SimpleCoverage ==
    ret.fn = "estimate_coverage_simple" =>
        LET inside == \E k \in 1..Len(call.zones) :
                          Abs(call.point - call.zones[k].center) <= call.zones[k].radius_km
        IN  IF inside
            THEN ~ret.value.has_coverage /\ ret.value.quality = "likely_degraded"
            ELSE ret.value.has_coverage /\ ret.value.quality = "assumed_available"

\* a point on the boundary of the second of two zones
C18_Witness ==
    /\ ret.fn = "estimate_coverage_simple"
    /\ call.zones = <<Zone1, Zone2>> /\ call.point = 21
    /\ ret.value.quality = "likely_degraded"

\* Towers stand on the line of the zones, whose unit is here a tenth of a km.
Tower(pos, operational) == [latitude |-> pos, is_operational |-> operational]

\* estimate_cell_coverage, line 79: calculate_distance_km(...) * 1000
DistanceM(point, tower) == CalculateDistanceKm(point, 0, tower.latitude, 0) * 100

\* CoverageQuality without the tower counts
CoverageQualityByDistance(closest_distance, towers_in_range) ==
    IF closest_distance < 500 THEN "excellent"
    ELSE IF closest_distance < 1000 THEN "good"
    ELSE IF closest_distance < 2000 THEN "fair"
    ELSE IF closest_distance < 5000 THEN "poor"
    ELSE "no_service"

\* estimate_cell_coverage, lines 101-110
CoverageQuality(closest_distance, towers_in_range) ==
    IF closest_distance < 500 /\ towers_in_range >= 3 THEN "excellent"
    ELSE IF closest_distance < 1000 /\ towers_in_range >= 2 THEN "good"
    ELSE IF closest_distance < 2000 THEN "fair"
    ELSE IF closest_distance < 5000 THEN "poor"
    ELSE "no_service"

\* estimate_cell_coverage
EstimateCellCoverage(towers, point) ==
    IF towers = <<>>
    THEN [has_coverage |-> FALSE, quality |-> "unknown", tower_count |-> 0,
          closest_tower_m |-> None]
    ELSE LET operational == SelectSeq(towers, LAMBDA t : t.is_operational)
             tower_distances == [k \in 1..Len(operational) |->
                                    DistanceM(point, operational[k])]
         IN  IF tower_distances = <<>>
             THEN [has_coverage |-> FALSE, quality |-> "no_service",
                   tower_count |-> 0, closest_tower_m |-> None]
             ELSE LET closest_distance ==
                          Min({tower_distances[k] : k \in 1..Len(tower_distances)})
                      towers_in_range ==
                          Cardinality({k \in 1..Len(tower_distances) :
                                          tower_distances[k] < 5000})
                      quality == CoverageQuality(closest_distance, towers_in_range)
                  IN  [has_coverage |-> quality \notin {"no_service", "unknown"},
                       quality |-> quality,
                       tower_count |-> towers_in_range,
                       closest_tower_m |-> Some(closest_distance)]

\* mark_towers_in_fire_zones leaving every tower as it is
MarkTowersUnmarked(towers, zones) == towers

\* mark_towers_in_fire_zones
MarkTowersInFireZones(towers, zones) ==
    [k \in 1..Len(towers) |->
        IF IsPointInDangerZone(towers[k].latitude, zones)
        THEN [towers[k] EXCEPT !.is_operational = FALSE]
        ELSE towers[k]]

\* largest list of towers
MaxTowers == 3

\* towers around the distances 500 m, 1 km, 2 km and 5 km from the point 0
RankedTowers ==
    {Tower(p, TRUE) : p \in {4, 5, 9, 10, 19, 20, 49, 50}} \cup {Tower(3, FALSE)}

CellCoverageCalls ==
    {[fn |-> "estimate_cell_coverage", towers |-> t, point |-> 0] :
        t \in SeqsUpTo(RankedTowers, MaxTowers)}

CallCellCoverage ==
    /\ call.fn = "estimate_cell_coverage" /\ ret = NoCall
    /\ ret' = [fn |-> call.fn, value |-> EstimateCellCoverage(call.towers, call.point)]
    /\ UNCHANGED <<call, rvars, fvars>>

\* the operational towers of the call, and their distances in metres
OperationalOf(towers) == {k \in 1..Len(towers) : towers[k].is_operational}
MetresTo(towers, point, k) == Abs(towers[k].latitude - point) * 100

\* C19: with d the distance to the closest operational tower and k the number
\* of operational towers within 5 km, the quality is excellent if d < 500 m
\* and k >= 3; else good if d < 1000 m and k >= 2; else fair if d < 2000 m;
\* else poor if d < 5000 m; else no_service; has_coverage is true exactly when
\* the quality is excellent, good, fair or poor.
C19_TowerQuality ==
    ret.fn = "estimate_cell_coverage" =>
        /\ ret.value.has_coverage =
              (ret.value.quality \in {"excellent", "good", "fair", "poor"})
        /\ OperationalOf(call.towers) # {} =>
              LET ops == OperationalOf(call.towers)
                  d == Min({MetresTo(call.towers, call.point, k) : k \in ops})
                  k == Cardinality({j \in ops :
                                       MetresTo(call.towers, call.point, j) < 5000})
              IN  ret.value.quality =
                     (IF d < 500 /\ k >= 3 THEN "excellent"
                      ELSE IF d < 1000 /\ k >= 2 THEN "good"
                      ELSE IF d < 2000 THEN "fair"
                      ELSE IF d < 5000 THEN "poor"
                      ELSE "no_service")

\* the closest tower is at 400 m and a single tower is within 5 km: fair
C19_Witness ==
    /\ ret.fn = "estimate_cell_coverage"
    /\ Len(call.towers) = 3
    /\ ret.value.closest_tower_m = Some(400) /\ ret.value.tower_count = 1
    /\ ret.value.quality = "fair" /\ ret.value.has_coverage

\* towers inside Zone1 (on its boundary), inside Zone2 and outside both
ZoneTowers == {Tower(p, o) : p \in {4, 8, 13, 20}, o \in BOOLEAN}

\* a caller that marks the towers and then ranks them
MarkTowersCalls ==
    {[fn |-> "mark_towers_in_fire_zones", towers |-> t, zones |-> z, point |-> 0] :
        t \in SeqsUpTo(ZoneTowers, MaxTowers), z \in ZoneLists}

CallMarkTowers ==
    /\ call.fn = "mark_towers_in_fire_zones" /\ ret = NoCall
    /\ LET marked == MarkTowersInFireZones(call.towers, call.zones)
       IN  ret' = [fn |-> call.fn, towers |-> marked,
                   coverage |-> EstimateCellCoverage(marked, call.point)]
    /\ UNCHANGED <<call, rvars, fvars>>

\* tower k of the call lies inside some zone of the call
TowerInZone(k) ==
    \E j \in 1..Len(call.zones) :
        Abs(call.towers[k].latitude - call.zones[j].center) <= call.zones[j].radius_km

\* the towers of the call that were operational and lie outside every zone
Standing == {k \in OperationalOf(call.towers) : ~TowerInZone(k)}

\* C20: after mark_towers_in_fire_zones every tower inside some zone is
\* non-operational, and is neither counted in tower_count nor used as the
\* closest tower by estimate_cell_coverage; a tower outside all zones keeps
\* its operational flag; marking never makes a tower operational.
C20_TowersInZonesOut ==
    ret.fn = "mark_towers_in_fire_zones" =>
        /\ Len(ret.towers) = Len(call.towers)
        /\ \A k \in 1..Len(call.towers) :
              /\ ret.towers[k].latitude = call.towers[k].latitude
              /\ TowerInZone(k) => ~ret.towers[k].is_operational
              /\ ~TowerInZone(k) =>
                    ret.towers[k].is_operational = call.towers[k].is_operational
              /\ ~call.towers[k].is_operational => ~ret.towers[k].is_operational
        /\ ret.coverage.tower_count =
              Cardinality({k \in Standing : MetresTo(call.towers, call.point, k) < 5000})
        /\ ret.coverage.closest_tower_m =
              (IF Standing = {} THEN None
               ELSE Some(Min({MetresTo(call.towers, call.point, k) : k \in Standing})))

\* the nearest tower was operational and stands in a zone: the farther one
\* outside is the closest tower
C20_Witness ==
    /\ ret.fn = "mark_towers_in_fire_zones"
    /\ \E a, b \in 1..Len(call.towers) :
         /\ call.towers[a] = Tower(8, TRUE) /\ TowerInZone(a)
         /\ call.towers[b] = Tower(13, TRUE)
         /\ Standing = {b}
    /\ ret.coverage.closest_tower_m = Some(1300)
    /\ ret.coverage.tower_count = 1

\* ------------------------------------------------------------------------
\* check_route_coverage
\* ------------------------------------------------------------------------
\* Sampled taking every point of the path
SampledEveryPoint(route_points, sample_interval) == route_points

\* route_points[::sample_interval]
Sampled(route_points, sample_interval) ==
    IF route_points = <<>> THEN <<>>
    ELSE [k \in 1..((Len(route_points) - 1) \div sample_interval + 1) |->
             route_points[(k - 1) * sample_interval + 1]]

\* round(100 * covered / sampled, 1), in tenths of a percent (no count used
\* is a tie)
RoundPercent(covered, sampled) == (2000 * covered + sampled) \div (2 * sampled)

\* lines 143-147: the loop's variables before the first sampled point
ScanStart == [covered_count |-> 0, dead_zones |-> <<>>, in_dead_zone |-> FALSE,
              dead_zone_start |-> None]

\* ScanPoint closing a run at the run's last uncovered point
ScanPointEndInside(scan, point, towers) ==
    IF EstimateCellCoverage(towers, point).has_coverage
    THEN [scan EXCEPT !.covered_count = @ + 1,
                      !.dead_zones = IF scan.in_dead_zone /\ scan.dead_zone_start # None
                                     THEN Append(@, [start |-> scan.dead_zone_start[1],
                                                     end |-> scan.dead_zone_start[1]])
                                     ELSE @,
                      !.in_dead_zone = FALSE,
                      !.dead_zone_start = None]
    ELSE IF ~scan.in_dead_zone
         THEN [scan EXCEPT !.in_dead_zone = TRUE, !.dead_zone_start = Some(point)]
         ELSE scan

\* lines 149-164: one sampled point
ScanPoint(scan, point, towers) ==
    IF EstimateCellCoverage(towers, point).has_coverage
    THEN [scan EXCEPT !.covered_count = @ + 1,
                      !.dead_zones = IF scan.in_dead_zone /\ scan.dead_zone_start # None
                                     THEN Append(@, [start |-> scan.dead_zone_start[1],
                                                     end |-> point])
                                     ELSE @,
                      !.in_dead_zone = IF scan.in_dead_zone /\ scan.dead_zone_start # None
                                       THEN FALSE ELSE @,
                      !.dead_zone_start = IF scan.in_dead_zone /\ scan.dead_zone_start # None
                                          THEN None ELSE @]
    ELSE IF ~scan.in_dead_zone
         THEN [scan EXCEPT !.in_dead_zone = TRUE, !.dead_zone_start = Some(point)]
         ELSE scan

RECURSIVE ScanPoints(_, _, _)
ScanPoints(scan, points, towers) ==
    IF points = <<>> THEN scan
    ELSE ScanPoints(ScanPoint(scan, Head(points), towers), Tail(points), towers)

\* check_route_coverage; coverage_percentage is in tenths of a percent
CheckRouteCoverage(route_points, towers, sample_interval) ==
    IF route_points = <<>>
    THEN [coverage_percentage |-> 0, has_coverage_throughout |-> FALSE,
          dead_zones |-> <<>>]
    ELSE LET sampled_points == Sampled(route_points, sample_interval)
             scan == ScanPoints(ScanStart, sampled_points, towers)
             dead_zones ==
                 IF scan.in_dead_zone /\ scan.dead_zone_start # None
                 THEN Append(scan.dead_zones,
                             [start |-> scan.dead_zone_start[1],
                              end |-> sampled_points[Len(sampled_points)]])
                 ELSE scan.dead_zones
         IN  [coverage_percentage |->
                  RoundPercent(scan.covered_count, Len(sampled_points)),
              has_coverage_throughout |->
                  100 * scan.covered_count >= 95 * Len(sampled_points),
              dead_zones |-> dead_zones]

\* longest path given to check_route_coverage
MaxPath == 6

\* one tower at 0: the points 10 and 20 (1 km, 2 km) have coverage, the points
\* 60 and 70 (6 km, 7 km) have none
RouteTowers == <<Tower(0, TRUE)>>
RoutePoints == {10, 20, 60, 70}

RouteCoverageCalls ==
    {[fn |-> "check_route_coverage", route_points |-> p, towers |-> RouteTowers,
      sample_interval |-> i] :
        p \in SeqsUpTo(RoutePoints, MaxPath), i \in {1, 5}}

CallRouteCoverage ==
    /\ call.fn = "check_route_coverage" /\ ret = NoCall
    /\ ret' = [fn |-> call.fn,
               value |-> CheckRouteCoverage(call.route_points, call.towers,
                                            call.sample_interval)]
    /\ UNCHANGED <<call, rvars, fvars>>

\* the indices of the path that are sampled, in path order
SampleIndices ==
    [k \in 1..Cardinality({j \in 1..Len(call.route_points) :
                              (j - 1) % call.sample_interval = 0}) |->
        (k - 1) * call.sample_interval + 1]
NumSamples == Len(SampleIndices)
SamplePoint(k) == call.route_points[SampleIndices[k]]
\* sampled point k has coverage
SampleCovered(k) == EstimateCellCoverage(call.towers, SamplePoint(k)).has_coverage
NumCovered == Cardinality({k \in 1..NumSamples : SampleCovered(k)})

\* C21 (as stated): check_route_coverage samples the path at the fixed stride
\* and reports coverage_percentage = 100 x (sampled points with coverage) /
\* (sampled points); has_coverage_throughout is true if and only if that
\* percentage is >= 95; an empty path gives 0, false and no dead zones.
C21_ExactPercentage ==
    ret.fn = "check_route_coverage" =>
        IF call.route_points = <<>>
        THEN ret.value = [coverage_percentage |-> 0, has_coverage_throughout |-> FALSE,
                          dead_zones |-> <<>>]
        ELSE /\ ret.value.coverage_percentage * NumSamples = 1000 * NumCovered
             /\ ret.value.has_coverage_throughout = (100 * NumCovered >= 95 * NumSamples)

\* C21 (amended): the reported coverage_percentage is that quotient rounded to
\* one decimal; has_coverage_throughout is true if and only if the unrounded
\* quotient is >= 95; an empty path gives 0, false and no dead zones.
C21_RoundedPercentage ==
    ret.fn = "check_route_coverage" =>
        IF call.route_points = <<>>
        THEN ret.value = [coverage_percentage |-> 0, has_coverage_throughout |-> FALSE,
                          dead_zones |-> <<>>]
        ELSE /\ 2 * Abs(ret.value.coverage_percentage * NumSamples - 1000 * NumCovered)
                    <= NumSamples
             /\ ret.value.has_coverage_throughout = (100 * NumCovered >= 95 * NumSamples)

\* a path of six points at stride 5: the first and the sixth are sampled, one
\* of them has coverage, and the four points between have none
C21_Witness ==
    /\ ret.fn = "check_route_coverage"
    /\ call.sample_interval = 5 /\ Len(call.route_points) = 6
    /\ call.route_points[1] = 10 /\ call.route_points[6] = 60
    /\ \A j \in 2..5 : call.route_points[j] = 70
    /\ ret.value.coverage_percentage = 500
    /\ ~ret.value.has_coverage_throughout

\* the maximal runs of sampled points without coverage, as <<first, last>>
DeadRuns ==
    {r \in (1..NumSamples) \X (1..NumSamples) :
        /\ r[1] <= r[2]
        /\ \A k \in r[1]..r[2] : ~SampleCovered(k)
        /\ r[1] = 1 \/ SampleCovered(r[1] - 1)
        /\ r[2] = NumSamples \/ SampleCovered(r[2] + 1)}
\* the position of a run among the runs, in path order
RunRank(r) == Cardinality({q \in DeadRuns : q[1] <= r[1]})

\* C26: dead_zones has exactly one entry per maximal contiguous run of sampled
\* points without coverage, in path order; an entry's start is the first
\* uncovered sampled point of its run, its end the sampled point at which
\* coverage resumes, or the last sampled point when the run reaches the end.
C26_DeadZonesAreRuns ==
    (ret.fn = "check_route_coverage" /\ call.route_points # <<>>) =>
        /\ Len(ret.value.dead_zones) = Cardinality(DeadRuns)
        /\ \A r \in DeadRuns :
              ret.value.dead_zones[RunRank(r)] =
                  [start |-> SamplePoint(r[1]),
                   end |-> IF r[2] < NumSamples THEN SamplePoint(r[2] + 1)
                           ELSE SamplePoint(NumSamples)]

\* two runs: the first has two different points and ends where coverage
\* resumes, the second reaches the end of the path
C26_Witness ==
    /\ ret.fn = "check_route_coverage"
    /\ call.sample_interval = 1
    /\ call.route_points = <<10, 60, 70, 20, 10, 70>>
    /\ ret.value.dead_zones = <<[start |-> 60, end |-> 20], [start |-> 70, end |-> 70]>>

\* ------------------------------------------------------------------------
\* decode_polyline
\* ------------------------------------------------------------------------
\* A string is the sequence of its character codes; a coordinate is a pair of
\* integers, its latitude and longitude in units of 10^-precision.

\* the provider's encoder of one signed delta: the value is shifted left by
\* one bit and complemented when negative, then cut into 5-bit chunks, lowest
\* first, each but the last with the bit 0x20 set, each offset by 63
ZigZag(delta) == IF delta < 0 THEN -(2 * delta) - 1 ELSE 2 * delta

RECURSIVE EncodeChunks(_)
EncodeChunks(value) ==
    IF value < 32 THEN <<value + 63>>
    ELSE <<(value % 32) + 32 + 63>> \o EncodeChunks(value \div 32)

RECURSIVE EncodeFrom(_, _, _)
EncodeFrom(points, lat, lng) ==
    IF points = <<>> THEN <<>>
    ELSE LET p == Head(points)
         IN  EncodeChunks(ZigZag(p[1] - lat)) \o EncodeChunks(ZigZag(p[2] - lng))
                 \o EncodeFrom(Tail(points), p[1], p[2])

EncodePolyline(points) == EncodeFrom(points, 0, 0)

\* 1 << n
Pow2(n) == 2 ^ n

\* lines 52-60 and 65-73: the chunks of one value, from position index
RECURSIVE ReadChunks(_, _, _, _)
ReadChunks(encoded, index, shift, bits) ==
    LET b == encoded[index] - 63
        next == bits + (b % 32) * Pow2(shift)
    IN  IF b < 32 THEN [result |-> next, index |-> index + 1]
        ELSE ReadChunks(encoded, index + 1, shift + 5, next)

\* SignedDelta negating without the complement
SignedDeltaNegated(bits) ==
    IF bits % 2 = 1 THEN -(bits \div 2) ELSE bits \div 2

\* lines 62 and 75: ~(result >> 1) if result & 1 else result >> 1
SignedDelta(bits) ==
    IF bits % 2 = 1 THEN -(bits \div 2) - 1 ELSE bits \div 2

\* lines 51-78: the loop, from position index with the running lat and lng
RECURSIVE DecodeFrom(_, _, _, _)
DecodeFrom(encoded, index, lat, lng) ==
    IF index > Len(encoded) THEN <<>>
    ELSE LET first == ReadChunks(encoded, index, 0, 0)
             newlat == lat + SignedDelta(first.result)
             second == ReadChunks(encoded, first.index, 0, 0)
             newlng == lng + SignedDelta(second.result)
         IN  <<<<newlat, newlng>>>> \o DecodeFrom(encoded, second.index, newlat, newlng)

DecodePolyline(encoded) == DecodeFrom(encoded, 1, 0, 0)

\* longest coordinate sequence encoded
MaxCoords == 2

\* values whose deltas take one, two and three chunks
CoordValues == {-600, -1, 0, 16}

DecodePolylineCalls ==
    {[fn |-> "decode_polyline", points |-> p, encoded |-> EncodePolyline(p)] :
        p \in SeqsUpTo(CoordValues \X CoordValues, MaxCoords)}

CallDecodePolyline ==
    /\ call.fn = "decode_polyline" /\ ret = NoCall
    /\ ret' = [fn |-> call.fn, value |-> DecodePolyline(call.encoded)]
    /\ UNCHANGED <<call, rvars, fvars>>

\* C22: decode_polyline inverts the polyline encoding: for every non-empty
\* coordinate sequence of multiples of 10^-precision (positive, zero and
\* negative), decoding the encoded string gives the same sequence, in the
\* same order and of the same length.
C22_DecodeInvertsEncode ==
    (ret.fn = "decode_polyline" /\ call.points # <<>>) =>
        /\ Len(ret.value) = Len(call.points)
        /\ ret.value = call.points

\* two coordinates whose deltas are negative and take three chunks
C22_Witness ==
    /\ ret.fn = "decode_polyline"
    /\ call.points = << <<16, -1>>, <<-600, -600>> >>
    /\ Len(call.encoded) > 4
    /\ ret.value = call.points

\* ------------------------------------------------------------------------
\* osm_service.py and main.py: from the POI elements to the candidates
\* ------------------------------------------------------------------------
\* fetch_safe_places, limit (default)
PlaceLimit == 20

\* fetch_safe_places, lines 143-163: the SafePlace of one parsed element;
\* distance_km is round(distance, 2)
SafePlace(element, point, zones) ==
    [id |-> element.id, name |-> element.name, lat |-> element.lat,
     distance_km |-> Round3(CalculateDistanceKm(point, 0, element.lat, 0)),
     is_in_danger_zone |-> IsPointInDangerZone(element.lat, zones)]

\* the sort key of line 166: (is_in_danger_zone, distance_km), False < True
PlaceKeyLE(p, q) ==
    \/ ~p.is_in_danger_zone /\ q.is_in_danger_zone
    \/ p.is_in_danger_zone = q.is_in_danger_zone /\ p.distance_km <= q.distance_km

\* list.sort is stable: a place goes behind every place whose key is <= its own
RECURSIVE InsertPlace(_, _)
InsertPlace(p, sorted) ==
    IF sorted = <<>> THEN <<p>>
    ELSE IF PlaceKeyLE(Head(sorted), p) THEN <<Head(sorted)>> \o InsertPlace(p, Tail(sorted))
    ELSE <<p>> \o sorted

RECURSIVE SortPlaces(_, _)
SortPlaces(places, sorted) ==
    IF places = <<>> THEN sorted
    ELSE SortPlaces(Tail(places), InsertPlace(Head(places), sorted))

\* fetch_safe_places, lines 128-167, once a mirror has answered
FetchSafePlacesParse(elements, point, zones) ==
    Take(SortPlaces([k \in 1..Len(elements) |-> SafePlace(elements[k], point, zones)], <<>>),
         PlaceLimit)

\* NavSafePlaces keeping every place
NavSafePlacesUnfiltered(places) == places

\* main.py, line 356
NavSafePlaces(places) == SelectSeq(places, LAMBDA p : ~p.is_in_danger_zone)

\* main.py, lines 369-372: the candidates handed to the selector
NavDestinations(safe_places) ==
    LET first == Take(safe_places, Fanout)
    IN  [k \in 1..Len(first) |->
            [lat |-> first[k].lat, name |-> first[k].name, id |-> first[k].id]]

\* the POI provider's elements: element k lies inside a zone (boundary
\* included) or just outside, as the set `inside` says
MaxPlaces == 7
InsidePositions == <<8, 12, 19, 21, 10, 20, 11>>
OutsidePositions == <<7, 13, 18, 22, 30, 40, 50>>
PositionOf(k, inside) ==
    LET j == ((k - 1) % 7) + 1
    IN  IF k \in inside THEN InsidePositions[j] ELSE OutsidePositions[j]
ElementLists ==
    { [k \in 1..n |-> [id |-> k, name |-> Some(k), lat |-> PositionOf(k, inside)]] :
        n \in 0..MaxPlaces, inside \in SUBSET (1..MaxPlaces) }

NavCandidatesCalls ==
    {[fn |-> "navigate_candidates", elements |-> e, zones |-> <<Zone1, Zone2>>] :
        e \in ElementLists}

CallNavCandidates ==
    /\ call.fn = "navigate_candidates" /\ ret = NoCall
    /\ ret' = [fn |-> call.fn,
               value |-> NavDestinations(NavSafePlaces(
                             FetchSafePlacesParse(call.elements, RefLat, call.zones)))]
    /\ UNCHANGED <<call, rvars, fvars>>

\* C23: /api/navigate hands at most 5 candidates to the selector, and no
\* candidate it hands over is within a danger zone's radius of that zone's
\* center.
C23_AtMostFiveSafeCandidates ==
    ret.fn = "navigate_candidates" =>
        /\ Len(ret.value) <= 5
        /\ \A k \in 1..Len(ret.value) : \A z \in 1..Len(call.zones) :
               Abs(ret.value[k].lat - call.zones[z].center) > call.zones[z].radius_km
        /\ \A k \in 1..Len(ret.value) :
               \E e \in 1..Len(call.elements) : call.elements[e].id = ret.value[k].id
                                                /\ call.elements[e].lat = ret.value[k].lat

\* more than five places outside the zones and one on a zone's boundary
C23_Witness ==
    /\ ret.fn = "navigate_candidates"
    /\ Len(call.elements) = 7
    /\ call.elements[1].lat = 8
    /\ \A k \in 2..7 : call.elements[k].lat = OutsidePositions[k]
    /\ Len(ret.value) = 5

\* ------------------------------------------------------------------------
\* cell_service.py: the tower registry
\* ------------------------------------------------------------------------
\* what the registry can answer: no answer in time, no connection, a status
\* other than 200, a 200 that is not JSON, a 200 without 'cells', or cells
RegistryFailures == {"timeout", "unreachable", "status", "notjson"}
RegistryAnswers ==
    { [kind |-> k, cells |-> <<>>] : k \in RegistryFailures \cup {"nocells"} }
    \cup { [kind |-> "ok", cells |-> c] : c \in SeqsUpTo({4, 9}, MaxTowers) }

\* fetch_cell_towers_opencellid: [] without the key, for a status other than
\* 200 and for every exception; nothing is raised
FetchCellTowers(key, answer) ==
    IF ~key THEN [raised |-> FALSE, towers |-> <<>>]
    ELSE IF answer.kind \in RegistryFailures THEN [raised |-> FALSE, towers |-> <<>>]
    ELSE [raised |-> FALSE,
          towers |-> [k \in 1..Len(answer.cells) |-> Tower(answer.cells[k], TRUE)]]

FetchCellTowersCalls ==
    {[fn |-> "fetch_cell_towers_opencellid", key |-> k, answer |-> a] :
        k \in BOOLEAN, a \in RegistryAnswers}

CallFetchCellTowers ==
    /\ call.fn = "fetch_cell_towers_opencellid" /\ ret = NoCall
    /\ ret' = [fn |-> call.fn, value |-> FetchCellTowers(call.key, call.answer)]
    /\ UNCHANGED <<call, rvars, fvars>>

\* the registry is misconfigured or unreachable
RegistryDown == ~call.key \/ call.answer.kind \in RegistryFailures

\* C25: if the tower registry is misconfigured (credential missing) or
\* unreachable, fetching towers raises no error, and the coverage estimate
\* made for a point from what the fetch returned (no towers) is the
\* simple-mode answer (likely_degraded or assumed_available) rather than a
\* failure or an 'unknown' result.
C25_RegistryDownGivesSimpleAnswer ==
    /\ (ret.fn = "fetch_cell_towers_opencellid" /\ RegistryDown) =>
            (~ret.value.raised /\ ret.value.towers = <<>>)
    /\ (ret.fn = "estimate_cell_coverage" /\ call.towers = <<>>) =>
            ret.value.quality \in {"likely_degraded", "assumed_available"}

\* the half of C25 that holds: a registry that is down yields no towers and
\* no error
C25_FetchNeverRaises ==
    (ret.fn = "fetch_cell_towers_opencellid" /\ RegistryDown) =>
        (~ret.value.raised /\ ret.value.towers = <<>>)

\* ------------------------------------------------------------------------
\* routing_service.py: the avoidance constraint of a provider request
\* ------------------------------------------------------------------------
\* create_avoid_polygon, num_points
NumPoints == 16

\* math.sin and math.cos of 2*pi*i/16, in thousandths
SinTable == <<0, 383, 707, 924, 1000, 924, 707, 383,
              0, -383, -707, -924, -1000, -924, -707, -383>>
Sin16(i) == SinTable[(i % 16) + 1]
Cos16(i) == Sin16(i + 4)

\* math.cos(math.radians(center_lat)) in thousandths, for the latitudes of
\* Zone1 and Zone2
CosLat(lat) == IF lat = 10 THEN 985 ELSE IF lat = 20 THEN 940 ELSE 1000

\* the ring's points are in millionths of a degree
Micro == 1000000

\* the ring of line 19-25, without the closing point
RingPoints(danger_zone, num_points) ==
    LET lat_radius == (danger_zone.radius_km * Micro) \div 111
        lng_radius == (danger_zone.radius_km * Micro * 1000)
                          \div (111 * CosLat(danger_zone.center))
    IN  [j \in 1..num_points |->
            <<(lng_radius * Cos16(j - 1)) \div 1000,
              danger_zone.center * Micro + (lat_radius * Sin16(j - 1)) \div 1000>>]

\* create_avoid_polygon without the append of line 27
CreateAvoidPolygonOpen(danger_zone, num_points) ==
    RingPoints(danger_zone, num_points)

\* create_avoid_polygon: [lng, lat] pairs, the first one repeated at the end
CreateAvoidPolygon(danger_zone, num_points) ==
    LET points == RingPoints(danger_zone, num_points)
    IN  Append(points, points[1])

\* create_avoid_polygons
CreateAvoidPolygons(zones) ==
    IF zones = <<>> THEN None
    ELSE Some([type |-> "MultiPolygon",
               coordinates |-> [k \in 1..Len(zones) |->
                                   <<CreateAvoidPolygon(zones[k], NumPoints)>>]])

\* get_route, lines 101-115: the body of the provider request
RequestBody(dest, zones) ==
    LET avoid_polygons == IF zones # <<>> THEN CreateAvoidPolygons(zones) ELSE None
    IN  [coordinates |-> <<<<0, RefLat>>, <<0, dest.lat>>>>,
         instructions |-> TRUE,
         geometry |-> TRUE,
         options |-> IF avoid_polygons # None
                     THEN Some([avoid_polygons |-> avoid_polygons[1]])
                     ELSE None]

RequestBodyCalls ==
    {[fn |-> "get_route_body", dest |-> Candidate(k), zones |-> z] :
        k \in 1..MaxCand, z \in GetRouteZoneLists}

CallRequestBody ==
    /\ call.fn = "get_route_body" /\ ret = NoCall
    /\ ret' = [fn |-> call.fn, value |-> RequestBody(call.dest, call.zones)]
    /\ UNCHANGED <<call, rvars, fvars>>

\* C27: the request get_route sends carries an avoidance constraint if and
\* only if at least one danger zone is supplied; the constraint is a
\* MultiPolygon with exactly one polygon per supplied zone, in the zones'
\* order, each polygon one ring of 16 distinct points around the zone's center
\* followed by a repeat of the first (17 points, first = last).
C27_AvoidanceConstraint ==
    ret.fn = "get_route_body" =>
        /\ (ret.value.options # None) <=> (Len(call.zones) >= 1)
        /\ ret.value.options # None =>
            LET payload == ret.value.options[1].avoid_polygons
            IN  /\ payload.type = "MultiPolygon"
                /\ Len(payload.coordinates) = Len(call.zones)
                /\ \A k \in 1..Len(call.zones) :
                    /\ Len(payload.coordinates[k]) = 1
                    /\ LET ring == payload.coordinates[k][1]
                           zone == call.zones[k]
                       IN  /\ Len(ring) = 17
                           /\ ring[17] = ring[1]
                           /\ \A a, b \in 1..16 : a # b => ring[a] # ring[b]
                           /\ ring[1][2] = zone.center * Micro
                           /\ \A a \in 1..17 :
                                Abs(ring[a][2] - zone.center * Micro) * 111
                                    <= zone.radius_km * Micro

\* two zones supplied, two rings sent
C27_Witness ==
    /\ ret.fn = "get_route_body"
    /\ call.zones = <<Zone1, Zone2>>
    /\ ret.value.options # None
    /\ Len(ret.value.options[1].avoid_polygons.coordinates) = 2
    /\ ret.value.options[1].avoid_polygons.coordinates[2][1][5][2]
           = 20 * Micro + 9009

\* ------------------------------------------------------------------------
\* osm_service.py: the mirrors of the POI provider
\* ------------------------------------------------------------------------
\* OVERPASS_SERVERS
NumMirrors == 3

\* what one mirror can answer: a status other than 200, no answer in time,
\* another transport error, or a 200 whose body is not JSON ("notjson"), is
\* the JSON value null ("null"), is JSON but no object ("nonobject"), or is an
\* object with elements
PoiElement(k, lat) == [id |-> k, name |-> Some(k), lat |-> lat]
MirrorAnswers ==
    { [kind |-> k, elements |-> <<>>] :
        k \in {"status", "timeout", "error", "notjson", "null", "nonobject"} }
    \cup { [kind |-> "ok", elements |-> e] :
            e \in {<<>>, <<PoiElement(1, 13)>>, <<PoiElement(2, 12), PoiElement(3, 7)>>} }

\* fetch_safe_places, lines 106-123: the loop over the servers from server k
\* on; response.json() raising is caught by `except Exception`, and a body
\* null leaves data = None at the break
RECURSIVE MirrorLoop(_, _)
MirrorLoop(answers, k) ==
    IF k > Len(answers) THEN [asked |-> Len(answers), data |-> None]
    ELSE IF answers[k].kind \in {"ok", "nonobject"}
         THEN [asked |-> k, data |-> Some(answers[k])]
    ELSE IF answers[k].kind = "null" THEN [asked |-> k, data |-> None]
    ELSE MirrorLoop(answers, k + 1)

\* fetch_safe_places: the servers asked, and the places or the exception
FetchSafePlaces(answers, point, zones) ==
    LET loop == MirrorLoop(answers, 1)
    IN  IF loop.data = None
        THEN [asked |-> loop.asked, raised |-> "all_servers_failed", places |-> <<>>]
        ELSE IF loop.data[1].kind = "nonobject"
        THEN [asked |-> loop.asked, raised |-> "attribute_error", places |-> <<>>]
        ELSE [asked |-> loop.asked, raised |-> "no",
              places |-> FetchSafePlacesParse(loop.data[1].elements, point, zones)]

FetchSafePlacesCalls ==
    {[fn |-> "fetch_safe_places", answers |-> a, zones |-> <<Zone1, Zone2>>] :
        a \in [1..NumMirrors -> MirrorAnswers]}

CallFetchSafePlaces ==
    /\ call.fn = "fetch_safe_places" /\ ret = NoCall
    /\ ret' = [fn |-> call.fn,
               value |-> FetchSafePlaces(call.answers, RefLat, call.zones)]
    /\ UNCHANGED <<call, rvars, fvars>>

\* a mirror has failed: non-200, timeout or another error (an unreadable body
\* among them)
MirrorFailed(answer) == answer.kind \in {"status", "timeout", "error", "notjson"}
\* the first mirror that has not failed, 0 if there is none
FirstAnswering(answers) ==
    IF \A k \in 1..Len(answers) : MirrorFailed(answers[k]) THEN 0
    ELSE Min({k \in 1..Len(answers) : ~MirrorFailed(answers[k])})

\* C28: fetch_safe_places asks the mirrors in their fixed order, asks no
\* further mirror once one has answered 200, and raises a failure only when
\* every mirror has failed (non-200, timeout or other error); an earlier
\* mirror's failure never prevents a later mirror's answer from being used.
C28_MirrorsInOrderUntilAnswer ==
    ret.fn = "fetch_safe_places" =>
        LET first == FirstAnswering(call.answers)
        IN  /\ ret.value.asked = (IF first = 0 THEN NumMirrors ELSE first)
            /\ (ret.value.raised # "no") <=> (first = 0)
            /\ first # 0 =>
                 ret.value.places =
                    FetchSafePlacesParse(call.answers[first].elements, RefLat, call.zones)

\* C28 for mirrors whose 200 answers carry a JSON object
C28_HoldsForObjectBodies ==
    (/\ ret.fn = "fetch_safe_places"
     /\ \A k \in 1..NumMirrors : call.answers[k].kind \notin {"null", "nonobject"})
    => C28_MirrorsInOrderUntilAnswer

\* ------------------------------------------------------------------------
\* main.py: /api/fires/check
\* ------------------------------------------------------------------------
\* check_fire_alert, lines 269-281: `f.distance_km or 999` is 999 km for the
\* distance 0.0; an exception of fetch_fires becomes a status 500
CheckFireAlert(outcome, alert_threshold_km) ==
    IF outcome.kind = "raise"
    THEN [status |-> 500, is_alert |-> FALSE, alert_level |-> "none",
          fires_within_threshold |-> 0, closest_fire_km |-> None]
    ELSE LET fires == outcome.fires
             nearby == SelectSeq(fires, LAMBDA f :
                           (IF f.distance_km = 0 THEN 99900 ELSE f.distance_km)
                               <= alert_threshold_km)
             closest_km == IF fires # <<>> THEN Some(fires[1].distance_km) ELSE None
         IN  [status |-> 200,
              is_alert |-> Len(nearby) > 0,
              alert_level |-> DetermineAlertLevel(closest_km, Len(nearby)),
              fires_within_threshold |-> Len(nearby),
              closest_fire_km |-> closest_km]

\* distances around the threshold of 10 km (alert_threshold_km's default);
\* fetch_fires looks 10 km further
AlertThreshold == 1000
AlertDistances == {0, 1, 1000, 1001, 2000}

CheckFireAlertCalls ==
    {[fn |-> "check_fire_alert", outcome |-> o, alert_threshold_km |-> AlertThreshold] :
        o \in {[kind |-> "raise", fires |-> <<>>]}
              \cup {[kind |-> "ok", fires |-> SortByDistance(f)] :
                        f \in SeqsUpTo({FireAt(d) : d \in AlertDistances}, MaxFires)}}

CallCheckFireAlert ==
    /\ call.fn = "check_fire_alert" /\ ret = NoCall
    /\ ret' = [fn |-> call.fn,
               value |-> CheckFireAlert(call.outcome, call.alert_threshold_km)]
    /\ UNCHANGED <<call, rvars, fvars>>

\* the detected fires at most the threshold away
WithinThreshold ==
    {k \in 1..Len(call.outcome.fires) :
        call.outcome.fires[k].distance_km <= call.alert_threshold_km}

\* C29: in /api/fires/check, fires_within_threshold is the number of detected
\* fires whose distance_km is <= alert_threshold_km (fires at distance 0
\* counted), is_alert is true if and only if that number is positive, and
\* alert_level is NONE whenever no fire is within the threshold.
C29_AlertCountsFiresWithinThreshold ==
    (ret.fn = "check_fire_alert" /\ ret.value.status = 200) =>
        /\ ret.value.fires_within_threshold = Cardinality(WithinThreshold)
        /\ ret.value.is_alert <=> (Cardinality(WithinThreshold) > 0)
        /\ (Cardinality(WithinThreshold) = 0 => ret.value.alert_level = "none")

\* C29 for fires none of which is at distance 0.0
C29_HoldsAwayFromZero ==
    (/\ ret.fn = "check_fire_alert"
     /\ \A k \in 1..Len(call.outcome.fires) : call.outcome.fires[k].distance_km # 0)
    => C29_AlertCountsFiresWithinThreshold

\* one call of one of the functions
CalcInit ==
    /\ \/ call \in CreateDangerZonesCalls
       \/ call \in DetermineAlertLevelCalls
       \/ call \in DangerRadiusCalls
       \/ call \in GetRouteCalls
       \/ call \in CoverageSimpleCalls
       \/ call \in CellCoverageCalls
       \/ call \in MarkTowersCalls
       \/ call \in RouteCoverageCalls
       \/ call \in DecodePolylineCalls
       \/ call \in NavCandidatesCalls
       \/ call \in FetchCellTowersCalls
       \/ call \in RequestBodyCalls
       \/ call \in FetchSafePlacesCalls
       \/ call \in CheckFireAlertCalls
    /\ ret = NoCall
    /\ RoutingIdle
    /\ FiresIdle

CalcNext ==
    \/ CallCreateDangerZones
    \/ CallDetermineAlertLevel
    \/ CallDangerRadius
    \/ CallGetRoute
    \/ CallCoverageSimple
    \/ CallCellCoverage
    \/ CallMarkTowers
    \/ CallRouteCoverage
    \/ CallDecodePolyline
    \/ CallNavCandidates
    \/ CallFetchCellTowers
    \/ CallRequestBody
    \/ CallFetchSafePlaces
    \/ CallCheckFireAlert

SpecCalc == CalcInit /\ [][CalcNext]_vars

\* the fire-data fetch failed: no credential, or no sensor gave an answer
FireFetchFailed == ~firms_key \/ \A s \in 1..NumSensors : feeds[s].status = "failed"

\* C15: whenever the fire-data fetch fails (missing credential, or transport
\* failure, non-2xx status or malformed response from the sensors),
\* /api/navigate raises nothing and answers with alert_level NONE and a
\* non-empty warnings list reporting the failure.
C15_FetchFailureDegradesWithWarning ==
    (fpc = "navigate" /\ FireFetchFailed) =>
        /\ navfire.early
        /\ navfire.alert_level = "none"
        /\ navfire.warnings # <<>>


\* ------------------------------------------------------------------------
\* Termination of the selector
\* ------------------------------------------------------------------------
\* every get_route call returns (the provider request has a 30 s timeout) and
\* the endpoint's code runs on, so a step that can be taken is taken
SpecTerm == Init /\ [][Next]_vars /\ WF_vars(Next)

\* the get_route calls made for candidate k in one pass
CallsFor(k, constrained) ==
    Cardinality({ r \in 1..Len(requests) :
                    requests[r] = [dest |-> destinations[k].id, constrained |-> constrained] })
\* the provider requests sent in the two passes
SentIn(resp) == Cardinality({ k \in 1..NumCand : resp[k] # Unsent })

\* C24: the routing provider is never retried: a get_route call sends at most
\* one provider request, also after a failure or timeout, so the selector
\* issues at most N requests per pass for N candidates (at most 2N in total),
\* and it always terminates, with a result or with 'no result', whatever the
\* provider answers.
C24_NoRetryAndTermination ==
    /\ [](caller = "selector" =>
            /\ \A k \in 1..NumCand : CallsFor(k, TRUE) <= 1 /\ CallsFor(k, FALSE) <= 1
            /\ Len(requests) <= 2 * NumCand
            /\ SentIn(cresp) + SentIn(uresp) <= Len(requests)
            /\ (pc = "done" => ~raised))
    /\ (pc = "pass1" ~> (pc = "done" /\ ~raised))

\* both passes ran over three candidates and every request failed
C24_Witness ==
    /\ caller = "selector" /\ pc = "done" /\ NumCand = 3
    /\ Len(requests) = 6
    /\ \A k \in 1..3 : cresp[k].kind = "500" /\ uresp[k].kind = "500"
    /\ result = None


\* C30: whenever the selector returns (route, destination), the destination is
\* one of the input candidates, the route is the one obtained from the request
\* made for that candidate (its destination is that candidate's coordinates)
\* and carries that candidate's name; /api/navigate then reports a
\* recommended_destination that is not null, has that candidate's id, and
\* whose route_duration_minutes is the route's duration_minutes.
C30_RouteBelongsToDestination ==
    result # None =>
        /\ \E k \in 1..NumCand :
            /\ result[1].destination = destinations[k]
            /\ result[1].route.destination = destinations[k].lat
            /\ result[1].route.destination_name = destinations[k].name
            /\ \/ COk(k) /\ result[1].route = Named(CRoute(k), destinations[k])
               \/ UOk(k) /\ result[1].route = Named(MarkUnsafe(URoute(k)), destinations[k])
        /\ (FromNavigate /\ pc = "responded") =>
            /\ nav.route = Some(result[1].route)
            /\ nav.recommended_destination # None
            /\ nav.recommended_destination[1].place.id = result[1].destination.id
            /\ nav.recommended_destination[1].place = result[1].destination
            /\ nav.recommended_destination[1].route_duration_minutes
                   = result[1].route.duration_minutes

\* /api/navigate answered with the second of three candidates, whose route
\* came from the fallback pass
C30_Witness ==
    /\ FromNavigate /\ pc = "responded" /\ NumCand = 3
    /\ result # None /\ result[1].destination.id = 2
    /\ FallbackRequested
    /\ nav.recommended_destination # None

====
